---- MODULE Spec2Model ----
(***************************************************************************)
(* Model of src/scriptCreditLog.js: the factoring-message audit log        *)
(* (MSG01/02/05/07 decoding, the global message repository, the exchange   *)
(* rate cache, the per-click batch barrier and generateCombinedDisplayData)*)
(*                                                                         *)
(* Representation of JavaScript values                                     *)
(*   text    a TLA+ string; NullText stands for JavaScript null (an absent  *)
(*           element, getElementText's null)                               *)
(*   number  a record [k, n, s, c]: k = "num" (value n), "nan", "null", or   *)
(*           "str" (a string result of convertToUSD: s is its literal part, *)
(*           n and c the amount and currency it starts with)                *)
(* Fields written "src" are history fields: they name the run, file and     *)
(* node a message was decoded from and exist only to state properties.      *)
(***************************************************************************)
EXTENDS Integers, Sequences, FiniteSets, TLC

\* ---------------------------------------------------------------- bounds
MaxRuns == 2        \* clicks on the process button in one behaviour
MaxFiles == 2       \* files in one selection of the file input
MaxRetry == 1       \* invalid answers the user gives to one rate prompt
MaxSortRows == 4    \* messages in one file of the sorting runs
MaxReportRuns == 2  \* clicks on the process button of the report page

\* ------------------------------------------------------- program constants
CreditLineThreshold == 500000
DateSliceLen == 10
CountryPrefixLen == 2

\* ------------------------------------------------------------ JS values
NullText == "<null>"
JsNum(n) == [k |-> "num", n |-> n, s |-> "", c |-> ""]
JsNaN == [k |-> "nan", n |-> 0, s |-> "", c |-> ""]
JsNull == [k |-> "null", n |-> 0, s |-> "", c |-> ""]
JsStr(s) == [k |-> "str", n |-> 0, s |-> s, c |-> ""]
\* `${numericAmount.toFixed(2)} ${currency} ${note}`
JsAnnotated(n, c, note) == [k |-> "str", n |-> n, s |-> note, c |-> c]

\* String(v) and `${v}` of a text value: null prints as "null"
TemplateText(t) == IF t = NullText THEN "null" ELSE t

\* ------------------------------------------------------- string helpers
LowerChars == "abcdefghijklmnopqrstuvwxyz"
UpperChars == "ABCDEFGHIJKLMNOPQRSTUVWXYZ"
DigitChars == "0123456789"

CharAt(s, i) == SubSeq(s, i, i)

LowerSet == {CharAt(LowerChars, i) : i \in 1..26}
UpperSet == {CharAt(UpperChars, i) : i \in 1..26}
DigitSet == {CharAt(DigitChars, i) : i \in 1..10}
UpperOf == [ch \in LowerSet |->
                CharAt(UpperChars, CHOOSE i \in 1..26 : CharAt(LowerChars, i) = ch)]
ValueOf == [ch \in DigitSet |-> (CHOOSE i \in 1..10 : CharAt(DigitChars, i) = ch) - 1]

IsAlphaChar(ch) == ch \in LowerSet \/ ch \in UpperSet
IsDigitChar(ch) == ch \in DigitSet
DigitValue(ch) == ValueOf[ch]
UpperChar(ch) == IF ch \in LowerSet THEN UpperOf[ch] ELSE ch

RECURSIVE toUpperCase(_)
toUpperCase(s) ==
    IF Len(s) = 0 THEN ""
    ELSE UpperChar(CharAt(s, 1)) \o toUpperCase(SubSeq(s, 2, Len(s)))

\* String.prototype.includes
Includes(s, sub) ==
    \E i \in 1..(Len(s) - Len(sub) + 1) : SubSeq(s, i, i + Len(sub) - 1) = sub

\* s.slice(0, n) and s.substring(0, n)
Prefix(s, n) == SubSeq(s, 1, IF Len(s) < n THEN Len(s) ELSE n)

AllDigits(s) == Len(s) > 0 /\ \A i \in 1..Len(s) : IsDigitChar(CharAt(s, i))

RECURSIVE DigitsValue(_)
DigitsValue(s) ==
    IF Len(s) = 0 THEN 0
    ELSE 10 * DigitsValue(SubSeq(s, 1, Len(s) - 1)) + DigitValue(CharAt(s, Len(s)))

\* Number(text) for the texts of the message files: a run of digits is its
\* value, any other non-empty text is NaN
NumberOf(text) == IF AllDigits(text) THEN JsNum(DigitsValue(text)) ELSE JsNaN

\* ------------------------------------------------------ Message Decoder
\* A message node of an uploaded XML file: its element name, the names of the
\* child sections it contains, and the texts of the elements the log reads
\* (NullText when the element is absent).
Kinds == {"MSG01", "MSG02", "MSG05", "MSG07"}
SectionNames ==
    {"MsgInfo", "EF", "IF", "Seller", "SellerDetails", "Buyer",
     "PrelCreditAssessDetails", "CreditCoverDetails",
     "CurrentCreditCoverDetails", "NewCreditCoverDetails"}

\* The sections each fromXMLString looks up, in the order it checks them
RequiredSections(kind) ==
    CASE kind = "MSG01" -> <<"MsgInfo", "EF", "IF", "Seller", "SellerDetails">>
      [] kind = "MSG02" -> <<"MsgInfo", "EF", "IF", "Seller", "Buyer",
                             "PrelCreditAssessDetails">>
      [] kind = "MSG05" -> <<"MsgInfo", "EF", "IF", "Seller", "Buyer",
                             "CreditCoverDetails">>
      [] kind = "MSG07" -> <<"MsgInfo", "EF", "IF", "Seller", "Buyer",
                             "CurrentCreditCoverDetails", "NewCreditCoverDetails">>

getElementText(text) == text
getElementNumber(text) ==
    IF text # NullText /\ text # "" THEN NumberOf(text) ELSE JsNull

\* A kind-specific detail object of a message; Undefined for the kinds that
\* do not carry it
Undefined == [present |-> FALSE, Amt |-> JsNull, Currency |-> NullText]
Detail(amt, cur) == [present |-> TRUE, Amt |-> amt, Currency |-> cur]

\* The optional section a kind carries: the instance property
\* bankDetailsSeller, bankDetailsBuyer or ownRiskNewCreditCover is the
\* message's optionalSection, the data property of the element's name is
\* the payload's OptionalSection
OptionalSection(kind) ==
    CASE kind = "MSG01" -> "BankDetailsSeller"
      [] kind = "MSG07" -> "OwnRiskNewCreditCover"
      [] OTHER -> "BankDetailsBuyer"
EmptyObject == "{}"

\* root.querySelector(name) ? {} : null
OptionalData(node) ==
    IF OptionalSection(node.kind) \in node.sections THEN EmptyObject ELSE NullText

\* data.X || {} and data.MsgText || ''
OrEmptyObject(v) == IF v = NullText THEN EmptyObject ELSE v
OrEmptyString(v) == IF v = NullText THEN "" ELSE v

NoSrc == <<0, 0, 0>>
NoMessage ==
    [type |-> "", msgInfo |-> [SenderCode |-> NullText, DateTime |-> NullText],
     ef |-> [FactorCode |-> NullText, FactorName |-> NullText],
     seller |-> [SellerNr |-> NullText],
     sellerDetails |-> [BusinessProduct |-> NullText],
     prelCreditAssessDetails |-> Undefined, creditCoverDetails |-> Undefined,
     currentCreditCoverDetails |-> Undefined, newCreditCoverDetails |-> Undefined,
     optionalSection |-> EmptyObject, msgText |-> "",
     payload |-> [OptionalSection |-> NullText, MsgText |-> NullText],
     src |-> NoSrc]

\* The data object built once every required section was found, and the
\* constructor's copy of it into the instance
NewMessage(node) ==
    [type |-> node.kind,
     msgInfo |-> [SenderCode |-> getElementText(node.SenderCode),
                  DateTime |-> getElementText(node.DateTime)],
     ef |-> [FactorCode |-> getElementText(node.FactorCode),
             FactorName |-> getElementText(node.FactorName)],
     seller |-> [SellerNr |-> getElementText(node.SellerNr)],
     sellerDetails |->
        [BusinessProduct |-> IF node.kind = "MSG01"
                             THEN getElementText(node.BusinessProduct)
                             ELSE NullText],
     prelCreditAssessDetails |->
        IF node.kind = "MSG02"
        THEN Detail(getElementNumber(node.Amount), getElementText(node.Currency))
        ELSE Undefined,
     creditCoverDetails |->
        IF node.kind = "MSG05"
        THEN Detail(getElementNumber(node.Amount), getElementText(node.Currency))
        ELSE Undefined,
     currentCreditCoverDetails |->
        IF node.kind = "MSG07"
        THEN Detail(JsNull, getElementText(node.Currency))
        ELSE Undefined,
     newCreditCoverDetails |->
        IF node.kind = "MSG07"
        THEN Detail(getElementNumber(node.Amount), NullText)
        ELSE Undefined,
     optionalSection |-> OrEmptyObject(OptionalData(node)),
     msgText |-> OrEmptyString(getElementText(node.MsgText)),
     payload |-> [OptionalSection |-> OptionalData(node),
                  MsgText |-> getElementText(node.MsgText)],
     src |-> NoSrc]

Thrown(message) == [ok |-> FALSE, error |-> message, msg |-> NoMessage]
Returned(msg) == [ok |-> TRUE, error |-> "", msg |-> msg]

\* A check that overlooks the last of the required sections
MissingSectionsButLast(node) ==
    SelectSeq(SubSeq(RequiredSections(node.kind), 1, Len(RequiredSections(node.kind)) - 1),
              LAMBDA sec : sec \notin node.sections)

\* The required sections the node lacks, in checking order
MissingSections(node) ==
    SelectSeq(RequiredSections(node.kind), LAMBDA sec : sec \notin node.sections)

\* MSG01.fromXMLString: one check and one error per section, so the first
\* missing section is named
MSG01fromXMLString(node) ==
    IF MissingSections(node) # <<>>
    THEN Thrown("Invalid MSG01 XML structure: <"
                \o Head(MissingSections(node)) \o "> element not found.")
    ELSE Returned(NewMessage(node))

\* MSG02.fromXMLString: as MSG01
MSG02fromXMLString(node) ==
    IF MissingSections(node) # <<>>
    THEN Thrown("Invalid MSG02 XML structure: <"
                \o Head(MissingSections(node)) \o "> element not found.")
    ELSE Returned(NewMessage(node))

\* MSG05.fromXMLString: one combined check of the six sections
MSG05fromXMLString(node) ==
    IF MissingSections(node) # <<>>
    THEN Thrown("Missing required elements in MSG05 XML.")
    ELSE Returned(NewMessage(node))

\* MSG07.fromXMLString: one combined check of the seven sections
MSG07fromXMLString(node) ==
    IF MissingSections(node) # <<>>
    THEN Thrown("Missing required elements in MSG07 XML.")
    ELSE Returned(NewMessage(node))

\* The dispatch on nodeName in reader.onload
fromXMLString(node) ==
    CASE node.kind = "MSG01" -> MSG01fromXMLString(node)
      [] node.kind = "MSG02" -> MSG02fromXMLString(node)
      [] node.kind = "MSG05" -> MSG05fromXMLString(node)
      [] node.kind = "MSG07" -> MSG07fromXMLString(node)

\* -------------------------------------------------------- uploaded files
Range(seq) == {seq[i] : i \in 1..Len(seq)}
AllOf(kind) == Range(RequiredSections(kind))

Node(kind, sections, sender, sellerNr, dateTime, factorCode, factorName, product, amount, currency) ==
    [kind |-> kind, sections |-> sections, SenderCode |-> sender,
     SellerNr |-> sellerNr, DateTime |-> dateTime, FactorCode |-> factorCode,
     FactorName |-> factorName, BusinessProduct |-> product, Amount |-> amount,
     Currency |-> currency, MsgText |-> NullText]

Seller(sender, sellerNr, product) ==
    Node("MSG01", AllOf("MSG01"), sender, sellerNr, "2024-02-01T08:00:00",
         "TR001", "Acme Faktoring", product, NullText, NullText)

\* The files of the batch runs: each is the sequence of the message nodes
\* that querySelectorAll finds in it, in document order.
Catalog ==
    << \* 1: a seller agreement and a cover request of the same sender/seller
       << Seller("F1", "S9", "Textiles"),
          Node("MSG05", AllOf("MSG05"), "F1", "S9", "2024-03-02T10:00:00",
               "TR001", "Acme Faktoring", NullText, "100", "USD") >>,
       \* 2: a second agreement under the same key, a cover request without
       \* its Buyer section, and a request in EUR
       << Seller("F1", "S9", "Steel"),
          Node("MSG05", AllOf("MSG05") \ {"Buyer"}, "F1", "S9", "2024-03-03T10:00:00",
               "TR001", "Acme Faktoring", NullText, "100", "USD"),
          Node("MSG02", AllOf("MSG02"), "F1", "S9", "2024-03-01T09:00:00",
               "SG001", "Mogli Labs", NullText, "600000", "EUR") >>,
       \* 3: another sender/seller pair whose texts join to the same string as
       \* the pair of the update, which is in EUR as well
       << Seller("F1_S", "9", "Toys"),
          Node("MSG07", AllOf("MSG07"), "F1", "S_9", "2024-03-01T11:30:00",
               "US001", "Standard Chartered Bank New York", NullText,
               "2000000", "eur") >>,
       \* 4: a request whose EF has no FactorCode
       << Node("MSG05", AllOf("MSG05"), "F1", "S9", "2024-03-04T10:00:00",
               NullText, "Acme Faktoring", NullText, "100", "USD") >> >>

CatalogIds == 1..Len(Catalog)

\* The files of the single-message runs: one transactional message for every
\* combination of the texts below, alone or after a well-formed request, with
\* or without the agreement of its seller. File Len(Catalog) + 1 + n is the
\* combination whose mixed-radix digits are n.
RowKinds == <<"MSG02", "MSG05", "MSG07">>
RowFactorCodes == <<NullText, "", "1X01", "TR001", "US001">>
RowFactorNames == <<NullText, "Acme Faktoring", "Standard Chartered Bank New York">>
RowAmounts == <<NullText, "abc", "100", "600000">>
RowCurrencies == <<NullText, "USD", "eur">>

Digit(n, below, radix) == ((n \div below) % radix) + 1

RowNode(n) ==
    Node(RowKinds[Digit(n, 1, 3)], AllOf(RowKinds[Digit(n, 1, 3)]), "F1", "S9",
         "2024-03-05T10:00:00",
         RowFactorCodes[Digit(n, 3, 5)], RowFactorNames[Digit(n, 15, 3)], NullText,
         RowAmounts[Digit(n, 45, 4)], RowCurrencies[Digit(n, 180, 3)])

RowFile(n) ==
    (IF Digit(n, 540, 2) = 2 THEN <<Seller("F1", "S9", "Textiles")>> ELSE <<>>)
    \o (IF Digit(n, 1080, 2) = 2
        THEN <<Node("MSG02", AllOf("MSG02"), "F1", "S9", "2024-03-01T09:00:00",
                    "TR001", "Acme Faktoring", NullText, "100", "USD")>>
        ELSE <<>>)
    \o <<RowNode(n)>>

RowFileCount ==
    Len(RowKinds) * Len(RowFactorCodes) * Len(RowFactorNames) * Len(RowAmounts)
    * Len(RowCurrencies) * 2 * 2
RowFileIds == (Len(Catalog) + 1)..(Len(Catalog) + RowFileCount)

\* The files of the sorting runs: up to MaxSortRows transactional messages,
\* each one of SortMessages: a kind with an absent, a malformed or one of
\* two well-formed DateTime texts. A file is the number whose digits to the
\* base SortChoices + 1 are the places of its messages in SortMessages,
\* first message lowest.
SortMessages ==
    << <<"MSG02", NullText>>, <<"MSG02", "2024-03-01T09:00:00">>,
       <<"MSG02", "2024-03-05T10:00:00">>, <<"MSG05", "not-a-date">>,
       <<"MSG05", "2024-03-01T09:00:00">>, <<"MSG05", "2024-03-05T10:00:00">>,
       <<"MSG07", "2024-03-01T09:00:00">> >>
SortChoices == Len(SortMessages)
SortNode(d) ==
    Node(SortMessages[d + 1][1], AllOf(SortMessages[d + 1][1]), "F1", "S9",
         SortMessages[d + 1][2], "TR001", "Acme Faktoring", NullText, "100", "USD")
RECURSIVE SortFile(_)
SortFile(code) ==
    IF code = 0 THEN <<>>
    ELSE <<SortNode((code % (SortChoices + 1)) - 1)>> \o SortFile(code \div (SortChoices + 1))
RECURSIVE SortCode(_)
SortCode(digits) ==
    IF digits = <<>> THEN 0
    ELSE Head(digits) + (SortChoices + 1) * SortCode(Tail(digits))
SortFileBase == Len(Catalog) + RowFileCount
SortFileIds ==
    {SortFileBase + SortCode(digits) :
        digits \in UNION {[1..n -> 1..SortChoices] : n \in 1..MaxSortRows}}
FileIds == CatalogIds \cup RowFileIds \cup SortFileIds

\* The message nodes of a file
FileContent(id) ==
    IF id \in CatalogIds THEN Catalog[id]
    ELSE IF id \in RowFileIds THEN RowFile(id - Len(Catalog) - 1)
    ELSE SortFile(id - SortFileBase)

\* event.target.files: distinct files, in the picker's order
Selections ==
    {sel \in UNION {[1..n -> CatalogIds] : n \in 0..MaxFiles} :
        \A i, j \in 1..Len(sel) : i < j => sel[i] < sel[j]}
RowSelections == {<<id>> : id \in RowFileIds}
SortSelections == {<<id>> : id \in SortFileIds}

\* ------------------------------------------------------ Report Combiner
\* `${msg.msgInfo.SenderCode}_${msg.seller.SellerNr}`
JoinKey(msg) ==
    TemplateText(msg.msgInfo.SenderCode) \o "_" \o TemplateText(msg.seller.SellerNr)

\* What the user does at one prompt(): NullText is Cancel, any other text is
\* what was typed. Rates are whole numbers that divide the amounts of the
\* message files, so that amount / rate is exact in the integers.
PromptInputs == {NullText, "abc", "0", "2", "4"}

\* parseFloat of a typed text
ParseFloatText(text) == IF AllDigits(text) THEN JsNum(DigitsValue(text)) ELSE JsNaN

\* promptForExchangeRate, given the user's successive inputs: the first prompt
\* and the re-prompts of the while loop. Returns a positive number or null.
RECURSIVE promptForExchangeRate(_)
promptForExchangeRate(inputs) ==
    IF Head(inputs) = NullText THEN JsNull
    ELSE IF ParseFloatText(Head(inputs)).k = "nan" \/ ParseFloatText(Head(inputs)).n <= 0
         THEN promptForExchangeRate(Tail(inputs))
    ELSE ParseFloatText(Head(inputs))

\* A cache that is never found to hold a rate
HasRateNever(cache, c) == FALSE

\* exchangeRatesCache[c] is truthy
HasRate(cache, c) == c \in DOMAIN cache /\ cache[c] # 0

\* A cache that stores no rate but zero
StoreRateAsZero(cache, c, rate) ==
    [x \in DOMAIN cache \cup {c} |-> IF x = c THEN 0 ELSE cache[x]]

\* A cache that forgets the rate it is given
StoreRateNowhere(cache, c, rate) == cache

\* exchangeRatesCache[c] = rate
StoreRate(cache, c, rate) ==
    [x \in DOMAIN cache \cup {c} |-> IF x = c THEN rate ELSE cache[x]]

Converted(value, cache, prompted) ==
    [value |-> value, cache |-> cache, prompted |-> prompted]

\* A conversion that multiplies by the rate
convertToUSDTimesRate(amount, currency, cache, pr) ==
    IF amount.k = "null" \/ (amount.k = "str" /\ amount.s = "")
    THEN Converted(JsStr(" "), cache, FALSE)
    ELSE IF currency = NullText \/ currency = ""
    THEN Converted(JsStr("N/A"), cache, FALSE)
    ELSE IF amount.k # "num"
    THEN Converted(JsStr("Invalid Amount"), cache, FALSE)
    ELSE IF toUpperCase(currency) = "USD"
    THEN Converted(amount, cache, FALSE)
    ELSE IF HasRate(cache, toUpperCase(currency))
    THEN Converted(JsNum(amount.n * cache[toUpperCase(currency)]), cache, FALSE)
    ELSE IF pr.k # "null"
    THEN Converted(JsNum(amount.n * pr.n),
                   StoreRate(cache, toUpperCase(currency), pr.n), TRUE)
    ELSE Converted(JsAnnotated(amount.n, toUpperCase(currency), "(Rate needed)"),
                   cache, TRUE)

\* convertToUSD(amount, currency): the value returned, the cache afterwards and
\* whether promptForExchangeRate was called; pr is what that call returns
convertToUSD(amount, currency, cache, pr) ==
    IF amount.k = "null" \/ (amount.k = "str" /\ amount.s = "")
    THEN Converted(JsStr(" "), cache, FALSE)
    ELSE IF currency = NullText \/ currency = ""
    THEN Converted(JsStr("N/A"), cache, FALSE)
    ELSE IF amount.k # "num"
    THEN Converted(JsStr("Invalid Amount"), cache, FALSE)
    ELSE IF toUpperCase(currency) = "USD"
    THEN Converted(amount, cache, FALSE)
    ELSE IF HasRate(cache, toUpperCase(currency))
    THEN Converted(JsNum(amount.n \div cache[toUpperCase(currency)]), cache, FALSE)
    ELSE IF pr.k # "null"
    THEN Converted(JsNum(amount.n \div pr.n),
                   StoreRate(cache, toUpperCase(currency), pr.n), TRUE)
    ELSE Converted(JsAnnotated(amount.n, toUpperCase(currency), "(Rate needed)"),
                   cache, TRUE)

\* parseFloat of a creditLine: a number, or the number a string starts with
parseFloat(v) ==
    CASE v.k = "num" -> JsNum(v.n)
      [] v.k = "str" /\ v.s \in {"(Rate needed)", "(No Rate)"} -> JsNum(v.n)
      [] OTHER -> JsNaN

Value(v) == [ok |-> TRUE, v |-> v]
TypeError == [ok |-> FALSE, v |-> "TypeError"]
RangeError == [ok |-> FALSE, v |-> "RangeError"]

treyCountryCodes == {"AM", "EG", "GR", "IN", "MT", "RO", "TW", "TR", "VN"}
treySpecialCodes == {"SG", "JP", "US"}

\* factorName.includes(...) of the special-code rules: a TypeError when the
\* name is null
getCreditManagerSpecial(countryCode, factorName) ==
    IF factorName = NullText THEN TypeError
    ELSE IF countryCode = "SG" /\ Includes(factorName, "Mogli") THEN Value("trey")
    ELSE IF countryCode = "JP" /\ (Includes(factorName, "Mitsubishi")
                                   \/ Includes(factorName, "Sumitomo Mitsui"))
         THEN Value("trey")
    ELSE IF countryCode = "US"
            /\ Includes(factorName, "Standard Chartered Bank New York")
         THEN Value("trey")
    ELSE Value("bost")

getCreditManager(countryCode, creditLine, factorName) ==
    IF parseFloat(creditLine).k # "num" THEN Value("N/A")
    ELSE IF parseFloat(creditLine).n <= CreditLineThreshold THEN Value("lux")
    ELSE IF countryCode \in treyCountryCodes THEN Value("trey")
    ELSE IF countryCode \in treySpecialCodes
         THEN getCreditManagerSpecial(countryCode, factorName)
    ELSE Value("bost")

maryCodes == {"AR", "BD", "CA", "CL", "CN", "DO", "SV", "GT", "HN", "HK", "HU",
              "IT", "MU", "PK", "PT", "UY"}
tammieCodes == {"AM", "BG", "HR", "CY", "CZ", "EG", "GR", "MT", "MA", "RS", "SK",
                "SI", "TN", "TR"}
jamesCodes == {"ID", "JP", "KP", "KR", "MY", "PL", "ES", "LK", "TH", "AE", "VN"}
tylerCodes == {"BR", "CO", "CR", "FR", "DE", "MD", "PE", "RO", "TW"}

\* General rules in which the country lists come before the names
getAccountExecutiveListsFirst(cc, fn) ==
    IF cc \in maryCodes THEN "Mary Farley"
    ELSE IF cc \in tammieCodes THEN "Tammie Cosey"
    ELSE IF cc \in jamesCodes THEN "James Vuu"
    ELSE IF cc \in tylerCodes THEN "Tyler Sigler"
    ELSE IF Includes(fn, "SKYTEX") \/ Includes(fn, "GLOBAL DENIM") THEN "Mary Farley"
    ELSE " "

\* The general rules of getAccountExecutive, on the upper-cased arguments
getAccountExecutiveGeneral(cc, fn) ==
    IF Includes(fn, "SKYTEX") \/ Includes(fn, "GLOBAL DENIM") THEN "Mary Farley"
    ELSE IF cc \in maryCodes THEN "Mary Farley"
    ELSE IF cc \in tammieCodes THEN "Tammie Cosey"
    ELSE IF cc \in jamesCodes THEN "James Vuu"
    ELSE IF cc \in tylerCodes THEN "Tyler Sigler"
    ELSE " "

\* The country-specific rules, on the upper-cased arguments
getAccountExecutiveUpper(cc, fn) ==
    IF cc = "MX" /\ Includes(fn, "BANCOMEX") THEN "Mary Farley"
    ELSE IF cc = "MX" /\ Includes(fn, "BANCO MONEX") THEN "Tyler Sigler"
    ELSE IF cc = "IN" /\ (Includes(fn, "INDIA FACTORING") \/ Includes(fn, "SBI GLOBAL"))
         THEN "Tammie Cosey"
    ELSE IF cc = "IN" /\ (Includes(fn, "ICICI BANK") \/ Includes(fn, "INDIA EXIM"))
         THEN "James Vuu"
    ELSE IF cc = "IN" /\ (Includes(fn, "ECGC") \/ Includes(fn, "YES BANK"))
         THEN "Tyler Sigler"
    ELSE IF cc = "US" /\ Includes(fn, "STANDARD CHARTERED BANK NEW YORK")
         THEN "Mary Farley"
    ELSE IF cc = "SG"
         THEN (IF Includes(fn, "MOGLI LABS") THEN "Tammie Cosey" ELSE "James Vuu")
    ELSE getAccountExecutiveGeneral(cc, fn)

getAccountExecutive(countryCode, factorName) ==
    getAccountExecutiveUpper(toUpperCase(TemplateText(countryCode)),
                             toUpperCase(TemplateText(factorName)))

\* new Intl.DisplayNames(['en'], {type: 'region'}).of(code): a RangeError
\* unless code is two letters (the only well-formed region subtag of that
\* length); the English name of a region the table knows, else the code
IsRegionSubtag(code) ==
    Len(code) = 2 /\ IsAlphaChar(CharAt(code, 1)) /\ IsAlphaChar(CharAt(code, 2))

RegionName(code) ==
    CASE toUpperCase(code) = "TR" -> "Turkey"
      [] toUpperCase(code) = "SG" -> "Singapore"
      [] toUpperCase(code) = "US" -> "United States"
      [] OTHER -> toUpperCase(code)

regionNamesOf(code) == IF IsRegionSubtag(code) THEN Value(RegionName(code)) ELSE RangeError

\* msg.ef.FactorCode.substring(0, 2): a TypeError on a null FactorCode
exportFactorCodeCharacters(msg) ==
    IF msg.ef.FactorCode = NullText THEN TypeError
    ELSE Value(Prefix(msg.ef.FactorCode, CountryPrefixLen))

\* The per-kind selection of amount and currency
AmountReq(msg) ==
    CASE msg.type = "MSG02" -> msg.prelCreditAssessDetails.Amt
      [] msg.type = "MSG05" -> msg.creditCoverDetails.Amt
      [] msg.type = "MSG07" -> msg.newCreditCoverDetails.Amt
      [] OTHER -> JsStr("")

CurrencyOf(msg) ==
    CASE msg.type = "MSG02" -> msg.prelCreditAssessDetails.Currency
      [] msg.type = "MSG05" -> msg.creditCoverDetails.Currency
      [] msg.type = "MSG07" -> msg.currentCreditCoverDetails.Currency
      [] OTHER -> ""

\* allMsg01s.get(key): the record or undefined
HasSeller(m01s, key) == key \in DOMAIN m01s

\* The row object as first built, before the derived fields are filled in
NewRow(msg, m01s) ==
    [dateReceived |-> IF msg.msgInfo.DateTime # NullText /\ msg.msgInfo.DateTime # ""
                      THEN Prefix(msg.msgInfo.DateTime, DateSliceLen) ELSE "",
     partnerName |-> msg.ef.FactorName,
     messageType |-> CharAt(msg.type, Len(msg.type)),
     amountReq |-> AmountReq(msg),
     currency |-> CurrencyOf(msg),
     industryProduct |-> IF HasSeller(m01s, JoinKey(msg))
                         THEN m01s[JoinKey(msg)].sellerDetails.BusinessProduct
                         ELSE "",
     clientCode |-> msg.ef.FactorCode,
     partnerCountry |-> "", sellerCountry |-> "",
     amountReqUSD |-> JsStr(""), creditManager |-> "", aeCso |-> "",
     src |-> msg.src,
     sellerSrc |-> IF HasSeller(m01s, JoinKey(msg)) THEN m01s[JoinKey(msg)].src
                   ELSE NoSrc]

Processed(ok, row, cache, prompted) ==
    [ok |-> ok, row |-> row, cache |-> cache, prompted |-> prompted]

\* The body of the forEach callback of generateCombinedDisplayData for one
\* message. ok is FALSE when the body throws; pr is what a call of
\* promptForExchangeRate returns.
ProcessMessage(msg, m01s, cache, pr) ==
    LET row == NewRow(msg, m01s)
        chars == exportFactorCodeCharacters(msg)
        country == IF chars.ok /\ chars.v # "" THEN regionNamesOf(chars.v) ELSE Value("")
        conv == convertToUSD(row.amountReq, row.currency, cache, pr)
        manager == getCreditManager(chars.v, conv.value, row.partnerName)
    IN  IF ~chars.ok \/ ~country.ok THEN Processed(FALSE, row, cache, FALSE)
        ELSE IF ~manager.ok THEN Processed(FALSE, row, conv.cache, conv.prompted)
        ELSE Processed(TRUE,
                       [row EXCEPT !.partnerCountry = country.v,
                                   !.sellerCountry = country.v,
                                   !.amountReqUSD = conv.value,
                                   !.creditManager = manager.v,
                                   !.aeCso = getAccountExecutive(chars.v, row.partnerName)],
                       conv.cache, conv.prompted)

\* new Date(text) for a text of the message files: "YYYY-MM-DD" with a real
\* month and day is that day (as a number that grows with the calendar); the
\* empty string and any other text give an Invalid Date.
IsIsoDate(t) ==
    /\ Len(t) = 10
    /\ AllDigits(SubSeq(t, 1, 4)) /\ CharAt(t, 5) = "-"
    /\ AllDigits(SubSeq(t, 6, 7)) /\ CharAt(t, 8) = "-"
    /\ AllDigits(SubSeq(t, 9, 10))
    /\ DigitsValue(SubSeq(t, 6, 7)) \in 1..12
    /\ DigitsValue(SubSeq(t, 9, 10)) \in 1..31

NewDate(t) ==
    [valid |-> IsIsoDate(t),
     value |-> IF IsIsoDate(t)
               THEN DigitsValue(SubSeq(t, 1, 4)) * 372 + DigitsValue(SubSeq(t, 6, 7)) * 31
                    + DigitsValue(SubSeq(t, 9, 10))
               ELSE 0]

\* NewDate of every dateReceived the files can produce, computed once
DateTexts ==
    {""} \cup {Prefix(node.DateTime, DateSliceLen) :
                  node \in UNION {Range(FileContent(id)) : id \in FileIds}}
DateTable == [t \in DateTexts |-> NewDate(t)]
DateValid(t) == DateTable[t].valid
DateValue(t) == DateTable[t].value

\* (a, b) => new Date(a.dateReceived) - new Date(b.dateReceived): negative,
\* zero or positive; NaN (an Invalid Date on either side) counts as zero
CompareRows(a, b) ==
    IF DateValid(a.dateReceived) /\ DateValid(b.dateReceived)
    THEN DateValue(a.dateReceived) - DateValue(b.dateReceived)
    ELSE 0

\* The comparator orders the rows consistently: rows that compare equal to a
\* common row compare equal to each other
ConsistentComparator(rows) ==
    \A i, j, l \in 1..Len(rows) :
        (CompareRows(rows[i], rows[j]) = 0 /\ CompareRows(rows[j], rows[l]) = 0)
            => CompareRows(rows[i], rows[l]) = 0

\* Insert row after every row of sorted that does not compare greater
RECURSIVE InsertRow(_, _)
InsertRow(sorted, row) ==
    IF sorted = <<>> THEN <<row>>
    ELSE IF CompareRows(sorted[Len(sorted)], row) <= 0 THEN Append(sorted, row)
    ELSE Append(InsertRow(SubSeq(sorted, 1, Len(sorted) - 1), row), sorted[Len(sorted)])

RECURSIVE StableSort(_)
StableSort(rows) ==
    IF rows = <<>> THEN <<>>
    ELSE InsertRow(StableSort(SubSeq(rows, 1, Len(rows) - 1)), rows[Len(rows)])

Reorderings(rows) ==
    {[i \in 1..Len(rows) |-> rows[p[i]]] : p \in Permutations(1..Len(rows))}

\* Array.prototype.sort with CompareRows: the stable sort when the comparator
\* is consistent; otherwise the order is implementation-defined (ECMAScript
\* 23.1.3.30), any reordering of the rows
SortOutcomes(rows) ==
    IF ConsistentComparator(rows) THEN {StableSort(rows)} ELSE Reorderings(rows)

\* What promptForExchangeRate can return: for every way the user can answer,
\* with at most MaxRetry invalid inputs before the one that ends the prompting
InvalidInputs ==
    {t \in PromptInputs \ {NullText} :
        ParseFloatText(t).k = "nan" \/ ParseFloatText(t).n <= 0}
FinalInputs == PromptInputs \ InvalidInputs
PromptScripts ==
    UNION {{bad \o <<last>> : bad \in [1..n -> InvalidInputs], last \in FinalInputs}
           : n \in 0..MaxRetry}
PromptResults == {promptForExchangeRate(script) : script \in PromptScripts}

Outcome(threw, rows, cache, prompts) ==
    [threw |-> threw, rows |-> rows, cache |-> cache, prompts |-> prompts]

\* The forEach of generateCombinedDisplayData over todo, from the rows and
\* the cache reached so far: every outcome the user's answers allow. prompts
\* records each call of promptForExchangeRate: the currency and the result.
RECURSIVE CombineFrom(_, _, _, _, _)
CombineFrom(todo, m01s, rows, cache, prompts) ==
    IF todo = <<>> THEN {Outcome(FALSE, rows, cache, prompts)}
    ELSE UNION {
        LET done == ProcessMessage(Head(todo), m01s, cache, pr)
            asked == Append(prompts, [currency |-> toUpperCase(CurrencyOf(Head(todo))),
                                      result |-> pr])
        IN  IF ~done.ok
            THEN {Outcome(TRUE, rows, done.cache, IF done.prompted THEN asked ELSE prompts)}
            ELSE CombineFrom(Tail(todo), m01s, Append(rows, done.row), done.cache,
                             IF done.prompted THEN asked ELSE prompts)
        : pr \in IF ProcessMessage(Head(todo), m01s, cache, JsNull).prompted
                 THEN PromptResults ELSE {JsNull}}

\* generateCombinedDisplayData(): the outcomes of the loop, each followed by
\* the sort when the loop did not throw
generateCombinedDisplayData(m01s, m02s, m05s, m07s, cache) ==
    UNION {
        IF o.threw THEN {o}
        ELSE {Outcome(FALSE, sorted, o.cache, o.prompts) : sorted \in SortOutcomes(o.rows)}
        : o \in CombineFrom(m02s \o m05s \o m07s, m01s, <<>>, cache, <<>>)}

\* ------------------------------------------------------------------ state
VARIABLES
    processButtonDisabled,  \* processButton.disabled
    uploadedFiles,          \* the selected files, as catalog numbers
    allMsg01s,              \* Map: join key -> MSG01
    allMsg02s, allMsg05s, allMsg07s,
    exchangeRatesCache,     \* currency -> rate
    output,                 \* the table on the page: which run rendered it, its rows
    runs,                   \* per click: the closure of the handler and its readers
    registered,             \* history: src of every registration since the last reset
    loadedSinceReset,       \* history: <<run, index>> of every onload since the last reset
    decodeCall,             \* one call of a fromXMLString: its node and its outcome
    functionCall,           \* one call of a function of the page: arguments, outcome
    reportPage              \* the page of the Volume and Commission reports

vars == <<processButtonDisabled, uploadedFiles, allMsg01s, allMsg02s, allMsg05s,
          allMsg07s, exchangeRatesCache, output, runs, registered, loadedSinceReset,
          decodeCall, functionCall, reportPage>>

EmptyMap == [x \in {} |-> 0]
NoTable == [shown |-> FALSE, run |-> 0, rows |-> <<>>]
NotDecoded == [ok |-> FALSE, error |-> "", msg |-> NoMessage]
NoCall == [called |-> FALSE]

\* The page of the reports with nothing selected and its button disabled
NoFile == 0
NoReport == [shown |-> FALSE, run |-> 0, volumeHeaderRow |-> 0, commissionHeaderRow |-> 0, tables |-> <<>>]
NoLinks == [shown |-> FALSE, tables |-> <<>>]
ReportPageIdle ==
    [disabled |-> TRUE, volumeInput |-> NoFile, commissionInput |-> NoFile, runs |-> <<>>,
     alerts |-> <<>>, steps |-> <<>>, reportOutput |-> NoReport, copyButtons |-> FALSE,
     reportLinks |-> NoLinks]

\* The page after the script has run; the markup decides whether the process
\* button starts disabled
PageLoaded ==
    /\ processButtonDisabled \in BOOLEAN
    /\ uploadedFiles = <<>>
    /\ allMsg01s = EmptyMap
    /\ allMsg02s = <<>> /\ allMsg05s = <<>> /\ allMsg07s = <<>>
    /\ exchangeRatesCache = EmptyMap
    /\ output = NoTable
    /\ runs = <<>>
    /\ registered = <<>>
    /\ loadedSinceReset = <<>>
    /\ reportPage = ReportPageIdle

Init == PageLoaded /\ decodeCall = NoCall /\ functionCall = NoCall

\* fileInput 'change'
SelectFiles(sel) ==
    /\ sel # uploadedFiles
    /\ uploadedFiles' = sel
    /\ processButtonDisabled' = IF Len(sel) > 0 THEN FALSE ELSE processButtonDisabled
    /\ UNCHANGED <<allMsg01s, allMsg02s, allMsg05s, allMsg07s, exchangeRatesCache,
                   output, runs, registered, loadedSinceReset, decodeCall, functionCall, reportPage>>

\* The closure of one click: the files being read (totalFilesToRead is their
\* number), filesReadCount, the readers still reading; and, as history, the
\* files whose onload has finished, how
\* often the run called generateCombinedDisplayData, whether every message of
\* its files was registered at that call, whether the call threw, its prompts
NewRun(files) ==
    [files |-> files, filesReadCount |-> 0, pending |-> 1..Len(files),
     loaded |-> {}, combines |-> 0, complete |-> TRUE, threw |-> FALSE, prompts |-> <<>>]

\* processButton 'click' up to the end of the forEach that starts the readers
ClickProcess ==
    /\ ~processButtonDisabled
    /\ output' = NoTable
    /\ allMsg01s' = EmptyMap
    /\ allMsg02s' = <<>> /\ allMsg05s' = <<>> /\ allMsg07s' = <<>>
    /\ exchangeRatesCache' = EmptyMap
    /\ runs' = Append(runs, NewRun(uploadedFiles))
    /\ registered' = <<>>
    /\ loadedSinceReset' = <<>>
    /\ UNCHANGED <<processButtonDisabled, uploadedFiles, decodeCall, functionCall, reportPage>>

\* --------------------------------------------------- Message Repository
Repository(m01s, m02s, m05s, m07s, log) ==
    [m01s |-> m01s, m02s |-> m02s, m05s |-> m05s, m07s |-> m07s, log |-> log]

\* allMsg01s.set(key, instance)
MapSet(map, key, value) ==
    [x \in DOMAIN map \cup {key} |-> IF x = key THEN value ELSE map[x]]

\* A registration in which the first MSG01 of a key wins
RegisterFirstWins(repo, msg) ==
    CASE msg.type = "MSG01" ->
            [repo EXCEPT !.m01s = IF JoinKey(msg) \in DOMAIN repo.m01s THEN @
                                  ELSE MapSet(@, JoinKey(msg), msg),
                         !.log = Append(repo.log, msg.src)]
      [] msg.type = "MSG02" ->
            [repo EXCEPT !.m02s = Append(repo.m02s, msg), !.log = Append(repo.log, msg.src)]
      [] msg.type = "MSG05" ->
            [repo EXCEPT !.m05s = Append(repo.m05s, msg), !.log = Append(repo.log, msg.src)]
      [] msg.type = "MSG07" ->
            [repo EXCEPT !.m07s = Append(repo.m07s, msg), !.log = Append(repo.log, msg.src)]

\* The if/else chain of the registration on a decoded instance
Register(repo, msg) ==
    CASE msg.type = "MSG01" ->
            [repo EXCEPT !.m01s = MapSet(repo.m01s, JoinKey(msg), msg),
                         !.log = Append(repo.log, msg.src)]
      [] msg.type = "MSG02" ->
            [repo EXCEPT !.m02s = Append(repo.m02s, msg), !.log = Append(repo.log, msg.src)]
      [] msg.type = "MSG05" ->
            [repo EXCEPT !.m05s = Append(repo.m05s, msg), !.log = Append(repo.log, msg.src)]
      [] msg.type = "MSG07" ->
            [repo EXCEPT !.m07s = Append(repo.m07s, msg), !.log = Append(repo.log, msg.src)]

\* The try/catch around one node: a decoding error is logged and the node
\* is skipped
RegisterNode(repo, node, src) ==
    IF fromXMLString(node).ok
    THEN Register(repo, [fromXMLString(node).msg EXCEPT !.src = src])
    ELSE repo

\* A forEach that a decoding error ends: the nodes after it are not visited
RECURSIVE RegisterNodesUntilError(_, _, _, _, _)
RegisterNodesUntilError(repo, nodes, run, file, idx) ==
    IF idx > Len(nodes) \/ ~fromXMLString(nodes[idx]).ok THEN repo
    ELSE RegisterNodesUntilError(RegisterNode(repo, nodes[idx], <<run, file, idx>>),
                                 nodes, run, file, idx + 1)

\* msgNodes.forEach: the nodes of the file from position idx on
RECURSIVE RegisterNodes(_, _, _, _, _)
RegisterNodes(repo, nodes, run, file, idx) ==
    IF idx > Len(nodes) THEN repo
    ELSE RegisterNodes(RegisterNode(repo, nodes[idx], <<run, file, idx>>),
                       nodes, run, file, idx + 1)

\* history: the src of every message node of the run's files that decodes
DecodableOf(r, files) ==
    UNION {{<<r, files[i], n>> : n \in {n \in 1..Len(FileContent(files[i])) :
                                        fromXMLString(FileContent(files[i])[n]).ok}}
           : i \in 1..Len(files)}

\* --------------------------------------------------------------- actions
\* displayTable(displayRows): output.innerHTML is the table of the rows
displayTable(r, rows) == [shown |-> TRUE, run |-> r, rows |-> rows]

\* reader.onload of file i of run r: decode and register the nodes, count the
\* file, and on the last file combine and display
FileLoaded(r, i) ==
    LET run == runs[r]
        file == run.files[i]
        repo == RegisterNodes(Repository(allMsg01s, allMsg02s, allMsg05s, allMsg07s,
                                         registered),
                              FileContent(file), r, file, 1)
        count == run.filesReadCount + 1
    IN  /\ i \in run.pending
        /\ allMsg01s' = repo.m01s
        /\ allMsg02s' = repo.m02s
        /\ allMsg05s' = repo.m05s
        /\ allMsg07s' = repo.m07s
        /\ registered' = repo.log
        /\ loadedSinceReset' = Append(loadedSinceReset, <<r, i>>)
        /\ IF count = Len(run.files)
           THEN \E o \in generateCombinedDisplayData(repo.m01s, repo.m02s, repo.m05s,
                                                     repo.m07s, exchangeRatesCache) :
                    /\ exchangeRatesCache' = o.cache
                    /\ output' = IF o.threw THEN output ELSE displayTable(r, o.rows)
                    /\ runs' = [runs EXCEPT ![r] =
                                 [@ EXCEPT !.filesReadCount = count,
                                           !.pending = @ \ {i},
                                           !.loaded = @ \cup {i},
                                           !.combines = @ + 1,
                                           !.complete = DecodableOf(r, run.files)
                                                           \subseteq Range(repo.log),
                                           !.threw = o.threw,
                                           !.prompts = o.prompts]]
           ELSE /\ runs' = [runs EXCEPT ![r] = [@ EXCEPT !.filesReadCount = count,
                                                         !.pending = @ \ {i},
                                                         !.loaded = @ \cup {i}]]
                /\ UNCHANGED <<exchangeRatesCache, output>>
        /\ UNCHANGED <<processButtonDisabled, uploadedFiles, decodeCall, functionCall, reportPage>>

\* The read of file i of run r ends in an error: the reader has no onerror
\* handler, so nothing of the page changes and the file is never counted
FileReadFailed(r, i) ==
    /\ i \in runs[r].pending
    /\ runs' = [runs EXCEPT ![r] = [@ EXCEPT !.pending = @ \ {i}]]
    /\ UNCHANGED <<processButtonDisabled, uploadedFiles, allMsg01s, allMsg02s,
                   allMsg05s, allMsg07s, exchangeRatesCache, output, registered,
                   loadedSinceReset, decodeCall, functionCall, reportPage>>

\* The batch runs: up to MaxRuns clicks, each on a selection of up to MaxFiles
\* files of the catalog; a new selection matters only while a click can follow
Next ==
    \/ Len(runs) < MaxRuns /\ \E sel \in Selections : SelectFiles(sel)
    \/ Len(runs) < MaxRuns /\ ClickProcess
    \/ \E r \in 1..Len(runs) : \E i \in runs[r].pending : FileLoaded(r, i)
    \/ \E r \in 1..Len(runs) : \E i \in runs[r].pending : FileReadFailed(r, i)

Spec == Init /\ [][Next]_vars

\* One batch run: one selection, one click, and the reads of its files. Every
\* read that was started finishes in the end, with the file loaded or with a
\* read error
NextOneRun ==
    \/ uploadedFiles = <<>> /\ \E sel \in Selections : SelectFiles(sel)
    \/ runs = <<>> /\ ClickProcess
    \/ \E r \in 1..Len(runs) : \E i \in runs[r].pending : FileLoaded(r, i)
    \/ \E r \in 1..Len(runs) : \E i \in runs[r].pending : FileReadFailed(r, i)
ReadFinishes == \E r \in 1..Len(runs) : \E i \in runs[r].pending : FileReadFailed(r, i) \/ FileLoaded(r, i)
SpecOneRun == Init /\ [][NextOneRun]_vars /\ WF_vars(ReadFinishes)

\* The single-message runs: one selection of one file, one click
NextRows ==
    \/ uploadedFiles = <<>> /\ \E sel \in RowSelections : SelectFiles(sel)
    \/ runs = <<>> /\ ClickProcess
    \/ \E r \in 1..Len(runs) : \E i \in runs[r].pending : FileLoaded(r, i)
    \/ \E r \in 1..Len(runs) : \E i \in runs[r].pending : FileReadFailed(r, i)

SpecRows == Init /\ [][NextRows]_vars

\* The sorting runs: one selection of one file of dated messages, one click
NextSort ==
    \/ uploadedFiles = <<>> /\ \E sel \in SortSelections : SelectFiles(sel)
    \/ runs = <<>> /\ ClickProcess
    \/ \E r \in 1..Len(runs) : \E i \in runs[r].pending : FileLoaded(r, i)
    \/ \E r \in 1..Len(runs) : \E i \in runs[r].pending : FileReadFailed(r, i)

SpecSort == Init /\ [][NextSort]_vars

\* ------------------------------------------------- the decoders on their own
\* Message nodes of every kind with every subset of the sections, with and
\* without the optional section of the kind, and with no, an empty or a
\* filled <MsgText>
MsgTexts == {NullText, "", "Please expedite"}
DecodeNodes ==
    {[Node(kind, sections \cup optional, "F1", "S9", "2024-03-05T10:00:00", "TR001",
           "Acme Faktoring", "Textiles", "100", "USD") EXCEPT !.MsgText = text]
        : kind \in Kinds, sections \in SUBSET SectionNames,
          optional \in {{}} \cup {{OptionalSection(k)} : k \in Kinds}, text \in MsgTexts}

InitDecode ==
    /\ PageLoaded
    /\ decodeCall \in {[called |-> FALSE, node |-> node, result |-> NotDecoded]
                            : node \in DecodeNodes}
    /\ functionCall = NoCall

\* MSGxx.fromXMLString(xmlString) on the node, the error caught by the caller
Decode ==
    /\ ~decodeCall.called
    /\ decodeCall' = [decodeCall EXCEPT !.called = TRUE,
                                        !.result = fromXMLString(decodeCall.node)]
    /\ UNCHANGED <<processButtonDisabled, uploadedFiles, allMsg01s, allMsg02s,
                   allMsg05s, allMsg07s, exchangeRatesCache, output, runs,
                   registered, loadedSinceReset, functionCall, reportPage>>

NextDecode == Decode

SpecDecode == InitDecode /\ [][NextDecode]_vars

\* ------------------------------------------------------- the report files
\* content.split(/\r?\n/): the lines of a text, a line ending at each line
\* feed and losing a carriage return right before it
WithoutFinalCR(line) ==
    IF Len(line) > 0 /\ CharAt(line, Len(line)) = "\r" THEN SubSeq(line, 1, Len(line) - 1)
    ELSE line
RECURSIVE SplitLines(_)
SplitLines(content) ==
    LET feeds == {i \in 1..Len(content) : CharAt(content, i) = "\n"}
        first == CHOOSE i \in feeds : \A j \in feeds : i <= j
    IN  IF feeds = {} THEN <<content>>
        ELSE <<WithoutFinalCR(SubSeq(content, 1, first - 1))>>
                 \o SplitLines(SubSeq(content, first + 1, Len(content)))

\* The report types validateDataUpload returns: 0, 1 and null
VolumeType == JsNum(0)
CommissionType == JsNum(1)
UnknownType == JsNull

\* A classifier that looks for the tokens on every line
validateDataUploadAnyLine(content) ==
    IF \E n \in 1..Len(SplitLines(content)) : Includes(toUpperCase(SplitLines(content)[n]), "VOLUME")
    THEN VolumeType
    ELSE IF \E n \in 1..Len(SplitLines(content)) :
                Includes(toUpperCase(SplitLines(content)[n]), "COMMISSION")
    THEN CommissionType
    ELSE UnknownType

validateDataUpload(content) ==
    IF Len(SplitLines(content)) >= 3
    THEN IF Includes(toUpperCase(SplitLines(content)[3]), "VOLUME") THEN VolumeType
         ELSE IF Includes(toUpperCase(SplitLines(content)[3]), "COMMISSION") THEN CommissionType
         ELSE UnknownType
    ELSE UnknownType

\* line.replace(/\s/g, ''), the line taken by halves
RECURSIVE Squash(_)
Squash(line) ==
    IF Len(line) = 0 THEN ""
    ELSE IF Len(line) = 1 THEN (IF line \in {" ", "\t", "\r"} THEN "" ELSE line)
    ELSE Squash(SubSeq(line, 1, Len(line) \div 2))
            \o Squash(SubSeq(line, (Len(line) \div 2) + 1, Len(line)))

squashedHeaderVolume == "CLNTCURRMOLYSAMEMOCURRYTDYTDLASTYRTOTALLASTYR"
squashedHeaderCommission == "CLNTCURRMOLYSAMEMOCURRYTDYTDLASTYRTOTALLASTYRAVG"
NotFound == -1

\* A search that accepts a line beginning with the header's text
findHeaderRowByPrefix(content, fileType) ==
    LET lines == SplitLines(content)
        targetPattern == IF fileType = VolumeType THEN squashedHeaderVolume
                         ELSE squashedHeaderCommission
        found == {i \in 1..Len(lines) :
                    Prefix(Squash(lines[i]), Len(targetPattern)) = targetPattern}
    IN  IF found = {} THEN NotFound ELSE CHOOSE i \in found : \A j \in found : i <= j

\* findHeaderRow(content, fileType): the 1-based number of the first line
\* that is the header's text once its whitespace is removed, or -1
findHeaderRow(content, fileType) ==
    LET lines == SplitLines(content)
        targetPattern == IF fileType = VolumeType THEN squashedHeaderVolume
                         ELSE squashedHeaderCommission
        found == {i \in 1..Len(lines) : Squash(lines[i]) = targetPattern}
    IN  IF found = {} THEN NotFound ELSE CHOOSE i \in found : \A j \in found : i <= j

\* ------------------------------------------------------ the column map
\* text.substring(start, end) with offsets counted from 0: both offsets are
\* clamped to the text and swapped when start is the larger
Clamp(text, offset) == IF offset < 0 THEN 0 ELSE IF offset > Len(text) THEN Len(text) ELSE offset
Substring(text, start, end) ==
    IF Clamp(text, start) <= Clamp(text, end)
    THEN SubSeq(text, Clamp(text, start) + 1, Clamp(text, end))
    ELSE SubSeq(text, Clamp(text, end) + 1, Clamp(text, start))

\* text.trim()
WhiteSpace == {" ", "\t", "\r", "\n"}
Trim(text) ==
    LET inked == {i \in 1..Len(text) : CharAt(text, i) \notin WhiteSpace}
    IN  IF inked = {} THEN ""
        ELSE SubSeq(text, CHOOSE i \in inked : \A j \in inked : i <= j,
                          CHOOSE i \in inked : \A j \in inked : i >= j)

\* text.indexOf(term): the offset from 0 of the first occurrence, or -1
IndexOf(text, term) ==
    LET at == {i \in 0..(Len(text) - Len(term)) : SubSeq(text, i + 1, i + Len(term)) = term}
    IN  IF at = {} THEN -1 ELSE CHOOSE i \in at : \A j \in at : i <= j

\* dataLine.match(/[A-Z0-9]{4}/).index, or -1 without a match
CodeLen == 4
CodeChars == UpperSet \cup DigitSet
codeIndex(dataLine) ==
    LET at == {i \in 0..(Len(dataLine) - CodeLen) :
                 \A k \in 1..CodeLen : CharAt(dataLine, i + k) \in CodeChars}
    IN  IF at = {} THEN -1 ELSE CHOOSE i \in at : \A j \in at : i <= j

FourSpaces == "    "
Bracket(start, end) == [start |-> start, end |-> end]

\* dataColumnIndices[term] = index: the columns in the order their names
\* were first set, a name set again keeping its place
SetColumn(columns, term, index) ==
    IF \E n \in 1..Len(columns) : columns[n].name = term
    THEN [n \in 1..Len(columns) |->
            IF columns[n].name = term THEN [name |-> term, index |-> index] ELSE columns[n]]
    ELSE Append(columns, [name |-> term, index |-> index])

\* terms.forEach over one header text: each term found in it is recorded
RECURSIVE RecordTerms(_, _, _)
RecordTerms(columns, headerText, terms) ==
    IF terms = <<>> THEN columns
    ELSE RecordTerms(IF IndexOf(headerText, Head(terms)) # -1
                     THEN SetColumn(columns, Head(terms), IndexOf(headerText, Head(terms)))
                     ELSE columns,
                     headerText, Tail(terms))

dataColumnTermsVolume == <<"CURR MO", "LY SAME MO", "CURR YTD", "YTD LAST YR", "TOTAL LAST YR">>
dataColumnTermsCommission == dataColumnTermsVolume \o <<"AVG">>
secondaryTerms == <<"MTD % DIFF", "YTD % DIFF", "YTD DIFF">>

\* The data columns of a report whose header is line headerRow: the terms
\* of the header line, then the secondary terms of that line and the next
dataColumnIndices(lines, headerRow, fileType) ==
    LET primary == RecordTerms(<<>>, lines[headerRow],
                               IF fileType = CommissionType THEN dataColumnTermsCommission
                               ELSE dataColumnTermsVolume)
        onHeader == IF lines[headerRow] = "" THEN primary
                    ELSE RecordTerms(primary, lines[headerRow], secondaryTerms)
    IN  IF headerRow + 1 > Len(lines) \/ lines[headerRow + 1] = "" THEN onHeader
        ELSE RecordTerms(onHeader, lines[headerRow + 1], secondaryTerms)

\* The column map and its absence
NoSeparators == [found |-> FALSE, groupBracket |-> Bracket(0, 0), codeBracket |-> Bracket(0, 0), nameBracket |-> Bracket(0, 0), dataColumnIndices |-> <<>>]

\* The line the brackets are read from: this many lines below the header
DataLineOffset == 4

\* A column map read from the line right below the header
findColumnSeparatorsNextLine(content, headerRow, fileType) ==
    LET lines == SplitLines(content)
        dataLine == lines[headerRow + 1]
        nameStartIndex == codeIndex(dataLine) + CodeLen
        fourSpacesIndex == IndexOf(Substring(dataLine, nameStartIndex, Len(dataLine)), FourSpaces)
    IN  IF fileType \notin {CommissionType, VolumeType} THEN NoSeparators
        ELSE IF headerRow = NotFound \/ headerRow + 1 > Len(lines) THEN NoSeparators
        ELSE IF codeIndex(dataLine) = -1 THEN NoSeparators
        ELSE [found |-> TRUE,
              groupBracket |-> Bracket(0, codeIndex(dataLine)),
              codeBracket |-> Bracket(codeIndex(dataLine), nameStartIndex),
              nameBracket |-> Bracket(nameStartIndex,
                                      IF fourSpacesIndex # -1 THEN nameStartIndex + fourSpacesIndex
                                      ELSE Len(dataLine)),
              dataColumnIndices |-> dataColumnIndices(lines, headerRow, fileType)]

\* findColumnSeparators(content, headerRow, fileType): the brackets of the
\* group, the code and the name read from the line DataLineOffset lines
\* below the header, and the data columns read from the header
findColumnSeparators(content, headerRow, fileType) ==
    LET lines == SplitLines(content)
        dataLine == lines[headerRow + DataLineOffset]
        nameStartIndex == codeIndex(dataLine) + CodeLen
        fourSpacesIndex == IndexOf(Substring(dataLine, nameStartIndex, Len(dataLine)), FourSpaces)
    IN  IF fileType \notin {CommissionType, VolumeType} THEN NoSeparators
        ELSE IF headerRow = NotFound \/ headerRow + DataLineOffset > Len(lines) THEN NoSeparators
        ELSE IF codeIndex(dataLine) = -1 THEN NoSeparators
        ELSE [found |-> TRUE,
              groupBracket |-> Bracket(0, codeIndex(dataLine)),
              codeBracket |-> Bracket(codeIndex(dataLine), nameStartIndex),
              nameBracket |-> Bracket(nameStartIndex,
                                      IF fourSpacesIndex # -1 THEN nameStartIndex + fourSpacesIndex
                                      ELSE Len(dataLine)),
              dataColumnIndices |-> dataColumnIndices(lines, headerRow, fileType)]

\* ------------------------------------------------------ the report tables
\* Object.entries(dataColumnIndices).sort by index: a stable sort of the
\* columns, equal offsets keeping the order the names were set in
RECURSIVE InsertColumn(_, _)
InsertColumn(sorted, column) ==
    IF sorted = <<>> THEN <<column>>
    ELSE IF sorted[Len(sorted)].index <= column.index THEN Append(sorted, column)
    ELSE Append(InsertColumn(SubSeq(sorted, 1, Len(sorted) - 1), column), sorted[Len(sorted)])
RECURSIVE sortedDataColumns(_)
sortedDataColumns(columns) ==
    IF columns = <<>> THEN <<>>
    ELSE InsertColumn(sortedDataColumns(SubSeq(columns, 1, Len(columns) - 1)), columns[Len(columns)])

\* The width of the slice a data column is read from
ColumnWidth == 15

\* What the loop of generateTableHTML appends for line n: nothing, or a row
\* of the group, the code, the name and the slice of every data column
\* (line: the number of the line the row was read from)
TableRows(lines, separators, n) ==
    LET line == lines[n]
        groupValue == Trim(Substring(line, separators.groupBracket.start, separators.groupBracket.end))
        codeValue == Trim(Substring(line, separators.codeBracket.start, separators.codeBracket.end))
        columns == sortedDataColumns(separators.dataColumnIndices)
    IN  IF Len(groupValue) # 1 \/ codeValue = "" THEN <<>>
        ELSE << [line |-> n, group |-> groupValue, code |-> codeValue,
                 name |-> Trim(Substring(line, separators.nameBracket.start, separators.nameBracket.end)),
                 cells |-> [k \in 1..Len(columns) |->
                              Trim(Substring(line, columns[k].index, columns[k].index + ColumnWidth))]] >>

RECURSIVE RowsOf(_, _, _)
RowsOf(lines, separators, n) ==
    IF n = 0 THEN <<>> ELSE RowsOf(lines, separators, n - 1) \o TableRows(lines, separators, n)

\* A table generated whether or not there is a column map
generateTableHTMLOfAnyMap(title, content, separators) ==
    [title |-> title, message |-> "", sliced |-> Len(SplitLines(content)),
     columns |-> [n \in 1..Len(separators.dataColumnIndices) |->
                     sortedDataColumns(separators.dataColumnIndices)[n].name],
     rows |-> RowsOf(SplitLines(content), separators, Len(SplitLines(content)))]

\* generateTableHTML(title, content, separators): without a column map the
\* message alone; otherwise the header cells and a row for each data line
\* (sliced: the number of lines the loop took slices of)
NoColumnsMessage == "Could not generate table because column definitions were not found."
generateTableHTML(title, content, separators) ==
    IF ~separators.found
    THEN [title |-> title, message |-> NoColumnsMessage, sliced |-> 0, columns |-> <<>>, rows |-> <<>>]
    ELSE [title |-> title, message |-> "", sliced |-> Len(SplitLines(content)),
          columns |-> [n \in 1..Len(separators.dataColumnIndices) |->
                          sortedDataColumns(separators.dataColumnIndices)[n].name],
          rows |-> RowsOf(SplitLines(content), separators, Len(SplitLines(content)))]

\* --------------------------------------------------- the numbers of a row
\* A number of the report tables: a fraction num/den, an infinity of either
\* sign, NaN, or null for a text that is no number
Finite(num, den) == [k |-> "finite", num |-> num, den |-> den]
Infinite(sign) == [k |-> "infinite", num |-> sign, den |-> 0]
NotANumber == [k |-> "nan", num |-> 0, den |-> 0]
NullNumber == [k |-> "null", num |-> 0, den |-> 0]

RECURSIVE PowerOfTen(_)
PowerOfTen(n) == IF n = 0 THEN 1 ELSE 10 * PowerOfTen(n - 1)

\* text.replace(/,/g, '') and text.replace(/[^0-9.\-]/g, ''): the text
\* without the characters outside of keep
RECURSIVE Keep(_, _)
Keep(text, keep) ==
    IF Len(text) = 0 THEN ""
    ELSE (IF CharAt(text, 1) \in keep THEN CharAt(text, 1) ELSE "") \o Keep(SubSeq(text, 2, Len(text)), keep)
WithoutCommas(text) ==
    Keep(text, {CharAt(text, i) : i \in 1..Len(text)} \ {","})

\* Number(text) of a text without outer blanks: the empty text is 0, a sign
\* and Infinity an infinity, a sign and digits with at most one point their
\* value, and any other text NaN (texts with an exponent or a radix prefix
\* are not among the texts of the model)
StringToNumber(text) ==
    LET signed == Len(text) > 0 /\ CharAt(text, 1) \in {"+", "-"}
        sign == IF signed /\ CharAt(text, 1) = "-" THEN -1 ELSE 1
        body == IF signed THEN SubSeq(text, 2, Len(text)) ELSE text
        points == {i \in 1..Len(body) : CharAt(body, i) = "."}
        point == IF points = {} THEN Len(body) + 1 ELSE CHOOSE i \in points : TRUE
        whole == SubSeq(body, 1, point - 1)
        fraction == SubSeq(body, point + 1, Len(body))
    IN  IF text = "" THEN Finite(0, 1)
        ELSE IF body = "Infinity" THEN Infinite(sign)
        ELSE IF Cardinality(points) <= 1 /\ AllDigits(whole \o fraction)
        THEN Finite(sign * DigitsValue(whole \o fraction), PowerOfTen(Len(fraction)))
        ELSE NotANumber

\* parseNumericValue(value): null for a value that is no text, for a blank
\* text and for a text that is no number
parseNumericValue(value) ==
    IF value = NullText THEN NullNumber
    ELSE IF Trim(value) = "" THEN NullNumber
    ELSE IF StringToNumber(WithoutCommas(Trim(value))).k = "nan" THEN NullNumber
    ELSE StringToNumber(WithoutCommas(Trim(value)))

\* `${n}` of an integer
RECURSIVE NaturalText(_)
NaturalText(n) ==
    IF n < 10 THEN CharAt(DigitChars, n + 1)
    ELSE NaturalText(n \div 10) \o CharAt(DigitChars, (n % 10) + 1)
IntegerText(n) == IF n < 0 THEN "-" \o NaturalText(-n) ELSE NaturalText(n)

\* Math.round(num / den): the nearest integer, a half rounded upwards
Round(num, den) ==
    IF den > 0 THEN (2 * num + den) \div (2 * den) ELSE (-(2 * num) - den) \div (-(2 * den))

\* ((current - previous) / previous) * 100 of two numbers neither null nor
\* zero, rounded and printed: an infinite current value gives an infinity,
\* an infinite previous value NaN
PercentText(current, previous) ==
    IF previous.k = "infinite" THEN "NaN"
    ELSE IF current.k = "infinite"
    THEN (IF current.num * previous.num > 0 THEN "Infinity" ELSE "-Infinity")
    ELSE IntegerText(Round(100 * (current.num * previous.den - previous.num * current.den),
                           previous.num * current.den))

NotAvailable == "N/A"

\* A difference that does not test its operands for zero
computePercentageDiffOfZero(currentValue, previousValue) ==
    LET currentNumber == parseNumericValue(currentValue)
        previousNumber == parseNumericValue(previousValue)
    IN  IF currentNumber = NullNumber \/ previousNumber = NullNumber THEN NotAvailable
        ELSE IF previousNumber.num = 0 THEN "Infinity%"
        ELSE PercentText(currentNumber, previousNumber) \o "%"

\* computePercentageDiff(currentValue, previousValue)
computePercentageDiff(currentValue, previousValue) ==
    LET currentNumber == parseNumericValue(currentValue)
        previousNumber == parseNumericValue(previousValue)
    IN  IF \/ currentNumber = NullNumber
           \/ previousNumber = NullNumber
           \/ currentNumber.num = 0
           \/ previousNumber.num = 0
        THEN NotAvailable
        ELSE PercentText(currentNumber, previousNumber) \o "%"

\* parseFloat(text) === 0 for a text of digits, points and minus signs:
\* after one minus sign at most, the digits up to and after the first point
\* are the number read, and there is none if both are missing
ParsesToZero(text) ==
    LET body == IF Len(text) > 0 /\ CharAt(text, 1) = "-" THEN SubSeq(text, 2, Len(text)) ELSE text
        stops == {i \in 1..Len(body) : ~IsDigitChar(CharAt(body, i))}
        stop == IF stops = {} THEN Len(body) + 1 ELSE CHOOSE i \in stops : \A j \in stops : i <= j
        rest == IF stop <= Len(body) /\ CharAt(body, stop) = "." THEN SubSeq(body, stop + 1, Len(body)) ELSE ""
        ends == {i \in 1..Len(rest) : ~IsDigitChar(CharAt(rest, i))}
        end == IF ends = {} THEN Len(rest) + 1 ELSE CHOOSE i \in ends : \A j \in ends : i <= j
        read == SubSeq(body, 1, stop - 1) \o SubSeq(rest, 1, end - 1)
    IN  read # "" /\ \A i \in 1..Len(read) : CharAt(read, i) = "0"

\* isZeroValue(value) of a text
isZeroValue(value) ==
    LET numericCandidate == Keep(Trim(value), DigitSet \cup {".", "-"})
    IN  \/ Trim(value) = ""
        \/ numericCandidate \in {"", "-", "."}
        \/ ParsesToZero(numericCandidate)

\* --------------------------------------------------------- the link table
\* extractDataColumn(line, indices, primaryKey, fallbackKeys): the slice at
\* the offset of the first of the keys that is a data column, or ''
RECURSIVE extractDataColumn(_, _, _)
extractDataColumn(line, indices, keysToTry) ==
    IF keysToTry = <<>> THEN ""
    ELSE IF \E n \in 1..Len(indices) : indices[n].name = Head(keysToTry)
    THEN LET columnStart == (CHOOSE column \in Range(indices) : column.name = Head(keysToTry)).index
         IN  Trim(Substring(line, columnStart, columnStart + ColumnWidth))
    ELSE extractDataColumn(line, indices, Tail(keysToTry))

\* CODE_TO_COUNTRY_MAP[codeValue] || 'Unknown Country', for the codes of the
\* reports of the model
CountryOf(codeValue) ==
    IF codeValue = "6149" THEN "Armenia"
    ELSE IF codeValue = "555W" THEN "Argentina"
    ELSE "Unknown Country"

linkGroups == {"C", "U"}
NoLinkTableMessage == "Could not generate Volume table."

\* The values of a row of the link table: the slices of the value columns,
\* '0' for an empty one, and the two differences computed from them
rowValues(line, indices) ==
    LET value(keys) == IF extractDataColumn(line, indices, keys) = "" THEN "0"
                       ELSE extractDataColumn(line, indices, keys)
    IN  << value(<<"CURR MO">>), value(<<"LY SAME MO">>),
           computePercentageDiff(value(<<"CURR MO">>), value(<<"LY SAME MO">>)),
           value(<<"CURR YTD">>), value(<<"YTD LAST YR">>),
           computePercentageDiff(value(<<"CURR YTD">>), value(<<"YTD LAST YR">>)),
           value(<<"TOTAL LAST YR">>) >>

\* What the loop of generateVolumeLinkTable adds for line n: nothing, or a
\* row of group C or U with a value that is not zero
LinkRows(lines, separators, n) ==
    LET line == lines[n]
        groupValue == Trim(Substring(line, separators.groupBracket.start, separators.groupBracket.end))
        codeValue == toUpperCase(Trim(Substring(line, separators.codeBracket.start, separators.codeBracket.end)))
        nameValue == Trim(Substring(line, separators.nameBracket.start, separators.nameBracket.end))
        values == rowValues(line, separators.dataColumnIndices)
    IN  IF Len(groupValue) # 1 \/ codeValue = "" \/ groupValue \notin linkGroups THEN <<>>
        ELSE IF \A k \in 1..Len(values) : isZeroValue(values[k]) THEN <<>>
        ELSE << [line |-> n, group |-> groupValue,
                 displayName |-> nameValue \o ", " \o CountryOf(codeValue),
                 rowValues |-> values] >>

RECURSIVE LinkRowsOf(_, _, _)
LinkRowsOf(lines, separators, n) ==
    IF n = 0 THEN <<>> ELSE LinkRowsOf(lines, separators, n - 1) \o LinkRows(lines, separators, n)

\* The rows of one group, in the order of their lines
GroupRows(rows, key) == SelectSeq(rows, LAMBDA row : row.group = key)

\* generateVolumeLinkTable(content, separators): without a column map the
\* message alone; otherwise the rows of group C and the rows of group U
\* (the column widths and the row of totals are left out)
generateVolumeLinkTable(content, separators) ==
    IF ~separators.found
    THEN [message |-> NoLinkTableMessage, sliced |-> 0, C |-> <<>>, U |-> <<>>]
    ELSE LET rows == LinkRowsOf(SplitLines(content), separators, Len(SplitLines(content)))
         IN  [message |-> "", sliced |-> Len(SplitLines(content)),
              C |-> GroupRows(rows, "C"), U |-> GroupRows(rows, "U")]

\* lines.join(sep)
RECURSIVE Join(_, _)
Join(lines, sep) ==
    IF Len(lines) = 1 THEN lines[1] ELSE lines[1] \o sep \o Join(Tail(lines), sep)

\* Lines of a report in its fixed-width layout: the group, the code and the
\* name in the first NameWidth characters, then the cells, each ColumnWidth
\* characters wide
\* A run of spaces as long as the lead of a line
Blanks == "                            "
NameWidth == Len(Blanks)
PadTo(text, width) == text \o SubSeq(Blanks, 1, width - Len(text))
RECURSIVE CellsText(_)
CellsText(cells) ==
    IF cells = <<>> THEN "" ELSE PadTo(Head(cells), ColumnWidth) \o CellsText(Tail(cells))
ReportLine(lead, cells) == PadTo(lead, NameWidth) \o CellsText(cells)

VolumeHeaderLine == ReportLine("CLNT", <<"CURR MO", "LY SAME MO", "", "CURR YTD", "YTD LAST YR", "", "TOTAL LAST YR">>)
CommissionHeaderLine == VolumeHeaderLine \o "AVG"
DiffHeaderLine == ReportLine("", <<"", "", "MTD % DIFF", "", "", "YTD % DIFF", "">>)
RuleLine == "----"
HeaderLineOf(fileType) == IF fileType = CommissionType THEN CommissionHeaderLine ELSE VolumeHeaderLine

\* The lines below a header: rows of the groups C, U and X, a row of group
\* C with no value but zeros, a row whose group has two letters, a subtotal
\* without a code, a page break and an empty line
RowOfC == ReportLine("C   1234ACME TEXTILES", <<"110", "100", "99%", "1,100", "1,000", "99%", "2,000", "7">>)
RowOfU == ReportLine("U   6149ORION MILLS", <<"90", "120", "", "", "300", "", "400", "2">>)
RowOfZeros == ReportLine("C   555WZERO TRADING", <<"0", "0.00", "", "0", "", "", "0", "0">>)
RowOfX == ReportLine("X   9012GAMMA", <<"50", "0", "N/A", "50", "25", "100%", "75", "3">>)
RowOfCC == ReportLine("CC  5678BETA", <<"5", "4", "25%", "5", "4", "25%", "9", "1">>)
SubtotalLine == ReportLine("    subtotal", <<"165", "104">>)
PageBreakLine == "PAGE 2"
DataLines == {RowOfC, RowOfU, RowOfX, RowOfZeros, RowOfCC, SubtotalLine, PageBreakLine, ""}

\* The texts a report file can hold: a volume report and a commission
\* report (its lines ending in carriage return and line feed) with their
\* headers and rows, a text of one line, and a text whose third line has
\* both tokens
ReportTexts ==
    << Join(<<"ACME FACTORS", "RUN 2024-03-31", "VOLUME REPORT", "", VolumeHeaderLine,
              DiffHeaderLine, "", RuleLine, RowOfC, RowOfU, RowOfZeros, SubtotalLine>>, "\n"),
       Join(<<"ACME FACTORS", "RUN 2024-03-31", "COMMISSION REPORT", CommissionHeaderLine,
              DiffHeaderLine, "", RuleLine, RowOfC, RowOfCC, PageBreakLine, RowOfX>>, "\r\n"),
       "VOLUME REPORT",
       "ACME FACTORS\nRUN 2024-03-31\nCommission by volume" >>
ReportFiles == 1..Len(ReportTexts)

\* What the handler computes from the text of each file
FileTypes == [file \in ReportFiles |-> validateDataUpload(ReportTexts[file])]
HeaderRows ==
    [file \in ReportFiles |-> [fileType \in {VolumeType, CommissionType} |->
                                  findHeaderRow(ReportTexts[file], fileType)]]
Separators ==
    [file \in ReportFiles |-> [fileType \in {VolumeType, CommissionType} |->
        findColumnSeparators(ReportTexts[file], HeaderRows[file][fileType], fileType)]]

\* parseAndDisplayReports(volumeContent, volumeSeparators, commissionContent,
\* commissionSeparators): the two tables put on the page and the link table
parseAndDisplayReports(volumeContent, volumeSeparators, commissionContent, commissionSeparators) ==
    [volumeTableHTML |-> generateTableHTML("Volume Report", volumeContent, volumeSeparators),
     commissionTableHTML |-> generateTableHTML("Commission Report", commissionContent, commissionSeparators),
     volumeLinkTableHTML |-> generateVolumeLinkTable(volumeContent, volumeSeparators)]
Reports ==
    [volume \in ReportFiles |-> [commission \in ReportFiles |->
        parseAndDisplayReports(ReportTexts[volume], Separators[volume][VolumeType],
                               ReportTexts[commission], Separators[commission][CommissionType])]]

\* updateButtonState()
updateButtonState(page) ==
    [page EXCEPT !.disabled = ~(page.volumeInput # NoFile /\ page.commissionInput # NoFile)]

\* volumeInput 'change'
SelectVolume(file) ==
    /\ file # reportPage.volumeInput
    /\ reportPage' = updateButtonState([reportPage EXCEPT !.volumeInput = file])
    /\ UNCHANGED <<processButtonDisabled, uploadedFiles, allMsg01s, allMsg02s, allMsg05s,
                   allMsg07s, exchangeRatesCache, output, runs, registered,
                   loadedSinceReset, decodeCall, functionCall>>

\* commissionInput 'change'
SelectCommission(file) ==
    /\ file # reportPage.commissionInput
    /\ reportPage' = updateButtonState([reportPage EXCEPT !.commissionInput = file])
    /\ UNCHANGED <<processButtonDisabled, uploadedFiles, allMsg01s, allMsg02s, allMsg05s,
                   allMsg07s, exchangeRatesCache, output, runs, registered,
                   loadedSinceReset, decodeCall, functionCall>>

Step(run, name) == <<run, name>>
Alert(run, about) == [run |-> run, about |-> about]

\* processButton 'click' up to the await: with both files chosen the two
\* reads start (without both the handler does nothing)
ClickReportProcess ==
    /\ ~reportPage.disabled
    /\ reportPage.volumeInput # NoFile /\ reportPage.commissionInput # NoFile
    /\ Len(reportPage.runs) < MaxReportRuns
    /\ reportPage' =
          [reportPage EXCEPT
              !.runs = Append(@, [volume |-> reportPage.volumeInput,
                                  commission |-> reportPage.commissionInput,
                                  state |-> "reading"]),
              !.steps = @ \o <<Step(Len(reportPage.runs) + 1, "readFileContent"),
                              Step(Len(reportPage.runs) + 1, "readFileContent")>>]
    /\ UNCHANGED <<processButtonDisabled, uploadedFiles, allMsg01s, allMsg02s, allMsg05s,
                   allMsg07s, exchangeRatesCache, output, runs, registered,
                   loadedSinceReset, decodeCall, functionCall>>

\* A validation that tests the Volume slot only
RejectionOfVolumeOnly(volumeFileType, commissionFileType) ==
    IF volumeFileType # VolumeType THEN "volume" ELSE "none"

\* The two tests of the file types: which slot's file is rejected
Rejection(volumeFileType, commissionFileType) ==
    IF volumeFileType # VolumeType THEN "volume"
    ELSE IF commissionFileType # CommissionType THEN "commission"
    ELSE "none"

\* The handler of run r after both reads resolved: the types are validated;
\* a wrong type ends the run with an alert; otherwise the headers and the
\* columns are found, the tables are generated and shown, the links are
\* updated and the copy buttons enabled
ReadsResolved(r) ==
    LET run == reportPage.runs[r]
        volumeFileType == FileTypes[run.volume]
        commissionFileType == FileTypes[run.commission]
        validated == reportPage.steps \o <<Step(r, "validateDataUpload"),
                                           Step(r, "validateDataUpload")>>
        rejected == Rejection(volumeFileType, commissionFileType)
    IN  /\ run.state = "reading"
        /\ reportPage' =
              IF rejected # "none"
              THEN [reportPage EXCEPT !.runs[r].state = "rejected",
                                      !.steps = validated,
                                      !.alerts = Append(@, Alert(r, rejected))]
              ELSE [reportPage EXCEPT
                      !.runs[r].state = "displayed",
                      !.steps = validated \o
                                  <<Step(r, "findHeaderRow"), Step(r, "findHeaderRow"),
                                    Step(r, "findColumnSeparators"),
                                    Step(r, "findColumnSeparators"),
                                    Step(r, "parseAndDisplayReports"),
                                    Step(r, "updateReportLinks")>>,
                      !.reportOutput =
                          [shown |-> TRUE, run |-> r,
                           volumeHeaderRow |-> HeaderRows[run.volume][volumeFileType],
                           commissionHeaderRow |-> HeaderRows[run.commission][commissionFileType],
                           tables |-> <<Reports[run.volume][run.commission].volumeTableHTML,
                                        Reports[run.volume][run.commission].commissionTableHTML>>],
                      !.reportLinks =
                          [shown |-> TRUE,
                           tables |-> <<Reports[run.volume][run.commission].volumeLinkTableHTML,
                                        Reports[run.volume][run.commission].commissionTableHTML>>],
                      !.copyButtons = TRUE]
        /\ UNCHANGED <<processButtonDisabled, uploadedFiles, allMsg01s, allMsg02s, allMsg05s,
                       allMsg07s, exchangeRatesCache, output, runs, registered,
                       loadedSinceReset, decodeCall, functionCall>>

\* A read of run r is rejected: the catch block alerts
ReadsRejected(r) ==
    /\ reportPage.runs[r].state = "reading"
    /\ reportPage' = [reportPage EXCEPT !.runs[r].state = "failed",
                                        !.alerts = Append(@, Alert(r, "read"))]
    /\ UNCHANGED <<processButtonDisabled, uploadedFiles, allMsg01s, allMsg02s, allMsg05s,
                   allMsg07s, exchangeRatesCache, output, runs, registered,
                   loadedSinceReset, decodeCall, functionCall>>

\* The report page after its script has run; the markup decides whether the
\* process button starts disabled
InitReports ==
    /\ processButtonDisabled = TRUE
    /\ uploadedFiles = <<>>
    /\ allMsg01s = EmptyMap
    /\ allMsg02s = <<>> /\ allMsg05s = <<>> /\ allMsg07s = <<>>
    /\ exchangeRatesCache = EmptyMap
    /\ output = NoTable
    /\ runs = <<>>
    /\ registered = <<>>
    /\ loadedSinceReset = <<>>
    /\ decodeCall = NoCall
    /\ functionCall = NoCall
    /\ \E disabled \in BOOLEAN : reportPage = [ReportPageIdle EXCEPT !.disabled = disabled]

NextReports ==
    \/ \E file \in ReportFiles \cup {NoFile} : SelectVolume(file)
    \/ \E file \in ReportFiles \cup {NoFile} : SelectCommission(file)
    \/ ClickReportProcess
    \/ \E r \in 1..Len(reportPage.runs) : ReadsResolved(r)
    \/ \E r \in 1..Len(reportPage.runs) : ReadsRejected(r)

SpecReports == InitReports /\ [][NextReports]_vars

\* ------------------------------------------------ the functions on their own
\* The page apart from functionCall stays as loaded
PageUnchanged ==
    UNCHANGED <<processButtonDisabled, uploadedFiles, allMsg01s, allMsg02s, allMsg05s,
                allMsg07s, exchangeRatesCache, output, runs, registered,
                loadedSinceReset, decodeCall, reportPage>>

\* Arguments of convertToUSD: amounts as getElementNumber and the row default
\* give them, currencies in either case, and the caches a run can have built
CallAmounts == {JsNull, JsStr(""), JsNaN, JsNum(0), JsNum(100), JsNum(600000)}
CallCurrencies == {NullText, "", "USD", "usd", "EUR", "eur", "Jpy"}
CallRates == {2, 4}
CallCaches ==
    {EmptyMap} \cup {StoreRate(EmptyMap, "EUR", r) : r \in CallRates}
        \cup {StoreRate(StoreRate(EmptyMap, "EUR", r), "JPY", q) : r, q \in CallRates}
ConvertCalls ==
    {[fn |-> "convertToUSD", called |-> FALSE, amount |-> a, currency |-> c,
      cache |-> cache, result |-> Converted(JsNull, cache, FALSE)]
        : a \in CallAmounts, c \in CallCurrencies, cache \in CallCaches}

\* Arguments of getCreditManager: the country codes of the rules and others,
\* credit lines as convertToUSD returns them, names as getElementText gives
\* them
ManagerCountryCodes == {"", "DE", "IN", "JP", "SG", "TR", "US", "sg"}
ManagerCreditLines ==
    {JsNum(0), JsNum(CreditLineThreshold), JsNum(CreditLineThreshold + 1), JsNum(2000000),
     JsStr(" "), JsStr("N/A"), JsStr("Invalid Amount"),
     JsAnnotated(600000, "EUR", "(Rate needed)")}
ManagerFactorNames ==
    {NullText, "", "Acme Faktoring", "Mogli Labs", "mogli labs", "Mitsubishi UFJ",
     "Sumitomo Mitsui Banking", "Standard Chartered Bank New York"}
ManagerCalls ==
    {[fn |-> "getCreditManager", called |-> FALSE, countryCode |-> cc, creditLine |-> cl,
      factorName |-> fn, result |-> Value("")]
        : cc \in ManagerCountryCodes, cl \in ManagerCreditLines, fn \in ManagerFactorNames}

\* Arguments of getAccountExecutive: country codes of the specific rules, of
\* the four lists and of none, in either case; names of every rule, in
\* either case, and names of no rule
ExecutiveCountryCodes ==
    {"", "MX", "mx", "IN", "in", "US", "SG", "sg", "IT", "it", "TR", "tr", "JP", "DE", "XX"}
ExecutiveFactorNames ==
    {NullText, "", "Acme Faktoring", "Bancomext", "Banco Monex", "India Factoring Ltd",
     "SBI Global Factors", "ICICI Bank", "India Exim Bank", "ECGC Ltd", "Yes Bank",
     "Standard Chartered Bank New York", "Mogli Labs", "mogli labs", "Skytex Mills",
     "SKYTEX", "Global Denim SA"}
ExecutiveCalls ==
    {[fn |-> "getAccountExecutive", called |-> FALSE, countryCode |-> cc,
      factorName |-> fn, result |-> ""]
        : cc \in ExecutiveCountryCodes, fn \in ExecutiveFactorNames}

\* Texts for validateDataUpload: up to MaxTextLines lines, with and without
\* the tokens in either case, joined by a line feed, by carriage return and
\* line feed, or by a bare carriage return
MaxTextLines == 4
TextLines == {"", "TOTALS", "VOLUME REPORT", "Monthly volume", "COMMISSION REPORT", "Commission by Volume"}
TextSeparators == {"\n", "\r\n", "\r"}
ClassifyCalls ==
    {[fn |-> "validateDataUpload", called |-> FALSE, content |-> Join(lines, sep),
      result |-> UnknownType]
        : lines \in UNION {[1..n -> TextLines] : n \in 1..MaxTextLines}, sep \in TextSeparators}

\* Texts for findHeaderRow: up to MaxHeaderLines lines, among them the two
\* headers spaced in different ways, a header in lower case and a header
\* followed by more text
MaxHeaderLines == 3
HeaderLines ==
    {"", "VOLUME REPORT",
     "CLNT  CURR MO  LY SAME MO  CURR YTD  YTD LAST YR  TOTAL LAST YR",
     "  CLNT\tCURR MO LY SAME MO CURR YTD YTD LAST YR TOTAL LAST YR  ",
     "CLNT  CURR MO  LY SAME MO  CURR YTD  YTD LAST YR  TOTAL LAST YR  AVG",
     "clnt  curr mo  ly same mo  curr ytd  ytd last yr  total last yr",
     "CLNT  CURR MO  LY SAME MO  CURR YTD  YTD LAST YR  TOTAL LAST YR  AVG  PCT"}
HeaderCalls ==
    {[fn |-> "findHeaderRow", called |-> FALSE, content |-> Join(lines, sep),
      fileType |-> fileType, result |-> NotFound]
        : lines \in UNION {[1..n -> HeaderLines] : n \in 1..MaxHeaderLines},
          sep \in {"\n", "\r\n"}, fileType \in {VolumeType, CommissionType}}

\* Reports for the column map and the tables: an optional first line, the
\* header, two or three lines, and up to MaxDataLines lines of DataLines
MaxDataLines == 2
ReportLeads == {<<>>, <<"PAGE 1">>}
ReportFills == {<<DiffHeaderLine, "", RuleLine>>, <<DiffHeaderLine, RuleLine>>}
ReportData == UNION {[1..n -> DataLines] : n \in 0..MaxDataLines}
ReportsOf(fileType) ==
    {Join(lead \o <<HeaderLineOf(fileType)>> \o fill \o data, "\n") :
        lead \in ReportLeads, fill \in ReportFills, data \in ReportData}

ColumnCalls ==
    {[fn |-> "findColumnSeparators", called |-> FALSE, content |-> content,
      headerRow |-> headerRow, fileType |-> fileType, result |-> NoSeparators]
        : content \in ReportsOf(VolumeType) \cup ReportsOf(CommissionType),
          headerRow \in {NotFound, 1, 2}, fileType \in {VolumeType, CommissionType, UnknownType}}

\* The tables of a report: with the column map of the report, and without
NotGenerated == [title |-> "", message |-> "", sliced |-> 0, columns |-> <<>>, rows |-> <<>>]
SeparatorsOf(content, fileType) == findColumnSeparators(content, findHeaderRow(content, fileType), fileType)
TitleOf(fileType) == IF fileType = VolumeType THEN "Volume Report" ELSE "Commission Report"
TableCallsOf(fileType) ==
    UNION {{[fn |-> "generateTableHTML", called |-> FALSE, title |-> TitleOf(fileType),
             content |-> content, separators |-> separators, result |-> NotGenerated]
               : separators \in {NoSeparators, SeparatorsOf(content, fileType)}}
               : content \in ReportsOf(fileType)}
TableCalls == TableCallsOf(VolumeType) \cup TableCallsOf(CommissionType)

NoLinkTable == [message |-> "", sliced |-> 0, C |-> <<>>, U |-> <<>>]
LinkCalls ==
    UNION {{[fn |-> "generateVolumeLinkTable", called |-> FALSE, content |-> content,
             separators |-> separators, result |-> NoLinkTable]
               : separators \in {NoSeparators, SeparatorsOf(content, VolumeType)}}
               : content \in ReportsOf(VolumeType)}

\* Operands for computePercentageDiff: a missing value, blank texts, texts
\* that are no number, zeros, whole numbers and fractions of either sign,
\* with commas and outer blanks, and the infinities
NumberTexts ==
    {NullText, "", "  ", "abc", "N/A", "12%", "0", "0.00", "-0", "1", "3", "25", "100", "110",
     "200", "201", "-50", "12.5", "1,000", "1,100", " 200 ", "Infinity", "-Infinity"}
DiffCalls ==
    {[fn |-> "computePercentageDiff", called |-> FALSE, currentValue |-> currentValue,
      previousValue |-> previousValue, result |-> ""]
        : currentValue \in NumberTexts, previousValue \in NumberTexts}

InitCalls ==
    /\ PageLoaded
    /\ decodeCall = NoCall
    /\ \/ functionCall \in ConvertCalls
       \/ functionCall \in ManagerCalls
       \/ functionCall \in ExecutiveCalls
       \/ functionCall \in ClassifyCalls
       \/ functionCall \in HeaderCalls
       \/ functionCall \in ColumnCalls
       \/ functionCall \in TableCalls
       \/ functionCall \in LinkCalls
       \/ functionCall \in DiffCalls

\* convertToUSD(amount, currency) with the cache as it is, the user answering
\* a prompt in any way
CallConvertToUSD ==
    /\ functionCall.fn = "convertToUSD" /\ ~functionCall.called
    /\ \E pr \in PromptResults :
          functionCall' = [functionCall EXCEPT
                              !.called = TRUE,
                              !.result = convertToUSD(functionCall.amount,
                                                      functionCall.currency,
                                                      functionCall.cache, pr)]
    /\ PageUnchanged

CallGetCreditManager ==
    /\ functionCall.fn = "getCreditManager" /\ ~functionCall.called
    /\ functionCall' = [functionCall EXCEPT
                          !.called = TRUE,
                          !.result = getCreditManager(functionCall.countryCode,
                                                      functionCall.creditLine,
                                                      functionCall.factorName)]
    /\ PageUnchanged

CallGetAccountExecutive ==
    /\ functionCall.fn = "getAccountExecutive" /\ ~functionCall.called
    /\ functionCall' = [functionCall EXCEPT
                          !.called = TRUE,
                          !.result = getAccountExecutive(functionCall.countryCode,
                                                         functionCall.factorName)]
    /\ PageUnchanged

CallValidateDataUpload ==
    /\ functionCall.fn = "validateDataUpload" /\ ~functionCall.called
    /\ functionCall' = [functionCall EXCEPT
                          !.called = TRUE,
                          !.result = validateDataUpload(functionCall.content)]
    /\ PageUnchanged

CallFindHeaderRow ==
    /\ functionCall.fn = "findHeaderRow" /\ ~functionCall.called
    /\ functionCall' = [functionCall EXCEPT
                          !.called = TRUE,
                          !.result = findHeaderRow(functionCall.content,
                                                   functionCall.fileType)]
    /\ PageUnchanged

CallFindColumnSeparators ==
    /\ functionCall.fn = "findColumnSeparators" /\ ~functionCall.called
    /\ functionCall' = [functionCall EXCEPT
                          !.called = TRUE,
                          !.result = findColumnSeparators(functionCall.content,
                                                          functionCall.headerRow,
                                                          functionCall.fileType)]
    /\ PageUnchanged

CallGenerateTableHTML ==
    /\ functionCall.fn = "generateTableHTML" /\ ~functionCall.called
    /\ functionCall' = [functionCall EXCEPT
                          !.called = TRUE,
                          !.result = generateTableHTML(functionCall.title,
                                                       functionCall.content,
                                                       functionCall.separators)]
    /\ PageUnchanged

CallGenerateVolumeLinkTable ==
    /\ functionCall.fn = "generateVolumeLinkTable" /\ ~functionCall.called
    /\ functionCall' = [functionCall EXCEPT
                          !.called = TRUE,
                          !.result = generateVolumeLinkTable(functionCall.content,
                                                             functionCall.separators)]
    /\ PageUnchanged

CallComputePercentageDiff ==
    /\ functionCall.fn = "computePercentageDiff" /\ ~functionCall.called
    /\ functionCall' = [functionCall EXCEPT
                          !.called = TRUE,
                          !.result = computePercentageDiff(functionCall.currentValue,
                                                           functionCall.previousValue)]
    /\ PageUnchanged

NextCalls ==
    \/ CallConvertToUSD
    \/ CallGetCreditManager
    \/ CallGetAccountExecutive
    \/ CallValidateDataUpload
    \/ CallFindHeaderRow
    \/ CallFindColumnSeparators
    \/ CallGenerateTableHTML
    \/ CallGenerateVolumeLinkTable
    \/ CallComputePercentageDiff

SpecCalls == InitCalls /\ [][NextCalls]_vars

\* -------------------------------------------------- combine called repeatedly
\* generateCombinedDisplayData() called MaxCombines times in succession on a
\* repository that holds the messages of one file, from any cache a run can
\* have built; functionCall.results are the outcomes in order.
MaxCombines == 2
CombineFiles == CatalogIds \cup RowFileIds
LoadedFrom(file) ==
    RegisterNodes(Repository(EmptyMap, <<>>, <<>>, <<>>, <<>>), FileContent(file), 1, file, 1)

InitCombine ==
    /\ processButtonDisabled = FALSE
    /\ uploadedFiles \in {<<file>> : file \in CombineFiles}
    /\ allMsg01s = LoadedFrom(uploadedFiles[1]).m01s
    /\ allMsg02s = LoadedFrom(uploadedFiles[1]).m02s
    /\ allMsg05s = LoadedFrom(uploadedFiles[1]).m05s
    /\ allMsg07s = LoadedFrom(uploadedFiles[1]).m07s
    /\ registered = LoadedFrom(uploadedFiles[1]).log
    /\ exchangeRatesCache \in CallCaches
    /\ output = NoTable
    /\ runs = <<>>
    /\ loadedSinceReset = <<>>
    /\ reportPage = ReportPageIdle
    /\ decodeCall = NoCall
    /\ functionCall = [fn |-> "generateCombinedDisplayData", results |-> <<>>]

CallCombine ==
    /\ Len(functionCall.results) < MaxCombines
    /\ \E o \in generateCombinedDisplayData(allMsg01s, allMsg02s, allMsg05s, allMsg07s,
                                              exchangeRatesCache) :
          /\ exchangeRatesCache' = o.cache
          /\ functionCall' = [functionCall EXCEPT !.results = Append(@, o)]
    /\ UNCHANGED <<processButtonDisabled, uploadedFiles, allMsg01s, allMsg02s, allMsg05s,
                   allMsg07s, output, runs, registered, loadedSinceReset, decodeCall, reportPage>>

NextCombine ==
    \/ CallCombine

SpecCombine == InitCombine /\ [][NextCombine]_vars

\* ============================================================ properties
RunIds == 1..Len(runs)
AllLoaded(r) == runs[r].loaded = 1..Len(runs[r].files)
Transactional == allMsg02s \o allMsg05s \o allMsg07s
NodeOf(src) == FileContent(src[2])[src[3]]

\* ------------------------------------------------------------------- C1
\* C1: in a run over N files generateCombinedDisplayData is invoked only
\* after the onload of every one of the N files has finished decoding and
\* registering, exactly once, and never on a partially filled repository:
\* at the call the repository holds every decodable message of the N files.
C1_CombineOnceOnFullRepository ==
    \A r \in RunIds :
        /\ runs[r].combines =
              IF Len(runs[r].files) > 0 /\ AllLoaded(r) THEN 1 ELSE 0
        /\ runs[r].combines > 0 => runs[r].complete

\* ------------------------------------------------------------------- C2
\* C2: at the start of every run the repository and the rate cache are
\* empty, and the rows a run displays derive only from the files selected
\* for that run, whatever the interleaving of clicks and onloads (the rates
\* of a run are the user's answers to its own prompts, which the cache
\* emptied at the click guarantees; they are covered by the first conjunct).
RunStarts == Len(runs') = Len(runs) + 1
RowsOfRun(table) ==
    table.shown =>
        \A k \in 1..Len(table.rows) :
            /\ table.rows[k].src[1] = table.run
            /\ table.rows[k].sellerSrc[1] \in {0, table.run}
C2_RunsAreIsolated ==
    [][/\ RunStarts =>
            /\ allMsg01s' = EmptyMap
            /\ allMsg02s' = <<>> /\ allMsg05s' = <<>> /\ allMsg07s' = <<>>
            /\ exchangeRatesCache' = EmptyMap
       /\ RowsOfRun(output')]_vars

\* ------------------------------------------------------------------- C3
\* The messages the onloads since the last reset had to register: for each
\* onload in order, the nodes of its file that decode, in document order
Decodes(src) == fromXMLString(NodeOf(src)).ok
DecodedAt(src) == [fromXMLString(NodeOf(src)).msg EXCEPT !.src = src]
NodesOfLoad(load) ==
    LET file == runs[load[1]].files[load[2]]
    IN  SelectSeq([n \in 1..Len(FileContent(file)) |-> <<load[1], file, n>>], Decodes)
RECURSIVE NodesOfLoads(_)
NodesOfLoads(loads) ==
    IF loads = <<>> THEN <<>>
    ELSE NodesOfLoads(SubSeq(loads, 1, Len(loads) - 1)) \o NodesOfLoad(loads[Len(loads)])
IsKind01(src) == NodeOf(src).kind = "MSG01"
IsKind02(src) == NodeOf(src).kind = "MSG02"
IsKind05(src) == NodeOf(src).kind = "MSG05"
IsKind07(src) == NodeOf(src).kind = "MSG07"
DecodedAll(srcs) == [n \in 1..Len(srcs) |-> DecodedAt(srcs[n])]
LastWithKey(srcs, key) ==
    srcs[CHOOSE n \in 1..Len(srcs) :
            /\ JoinKey(DecodedAt(srcs[n])) = key
            /\ \A l \in (n + 1)..Len(srcs) : JoinKey(DecodedAt(srcs[l])) # key]

\* C3: the repository holds at most one MSG01 per join key, the one
\* registered last under that key, and each of the MSG02, MSG05 and MSG07
\* collections holds every decoded message of its kind exactly once, in
\* registration order.
C3_RepositoryHoldsRegistrations ==
    LET due == NodesOfLoads(loadedSinceReset)
        sellers == SelectSeq(due, IsKind01)
    IN  /\ allMsg02s = DecodedAll(SelectSeq(due, IsKind02))
        /\ allMsg05s = DecodedAll(SelectSeq(due, IsKind05))
        /\ allMsg07s = DecodedAll(SelectSeq(due, IsKind07))
        /\ DOMAIN allMsg01s = {JoinKey(DecodedAt(src)) : src \in Range(sellers)}
        /\ \A key \in DOMAIN allMsg01s :
              allMsg01s[key] = DecodedAt(LastWithKey(sellers, key))

\* A second MSG01 has replaced the first under its key, and two messages of
\* transactional kinds are registered
C3_Witness ==
    /\ \E a, b \in Range(SelectSeq(NodesOfLoads(loadedSinceReset), IsKind01)) :
          a # b /\ JoinKey(DecodedAt(a)) = JoinKey(DecodedAt(b))
    /\ Len(Transactional) >= 2

\* ------------------------------------------------------------------- C8
RepositorySrcs ==
    {Transactional[n].src : n \in 1..Len(Transactional)}
        \cup {allMsg01s[key].src : key \in DOMAIN allMsg01s}
HasFailingNode(file) ==
    \E n \in 1..Len(FileContent(file)) : ~fromXMLString(FileContent(file)[n]).ok

\* C8: when the decoding of a message node fails, no instance of that node
\* is in the repository and the repository is otherwise unchanged by it
\* (it holds nothing but the decoded nodes of the files read), every other
\* node of the same file and of the other files read is decoded and
\* registered, and the file counts as finished for the batch barrier (the
\* run combines once all its files are counted).
C8_FailedNodeIsSkipped ==
    /\ \A src \in RepositorySrcs :
          /\ Decodes(src)
          /\ \E n \in 1..Len(loadedSinceReset) :
                /\ loadedSinceReset[n][1] = src[1]
                /\ runs[src[1]].files[loadedSinceReset[n][2]] = src[2]
    /\ \A n \in 1..Len(Transactional) :
          Transactional[n] = DecodedAt(Transactional[n].src)
    /\ \A key \in DOMAIN allMsg01s : allMsg01s[key] = DecodedAt(allMsg01s[key].src)
    /\ \A n \in 1..Len(loadedSinceReset) :
          LET r == loadedSinceReset[n][1]
              file == runs[r].files[loadedSinceReset[n][2]]
          IN  \A k \in 1..Len(FileContent(file)) :
                 IF Decodes(<<r, file, k>>)
                 THEN IF IsKind01(<<r, file, k>>)
                      THEN JoinKey(DecodedAt(<<r, file, k>>)) \in DOMAIN allMsg01s
                      ELSE \E l \in 1..Len(Transactional) :
                              Transactional[l] = DecodedAt(<<r, file, k>>)
                 ELSE <<r, file, k>> \notin RepositorySrcs
    /\ \A r \in RunIds :
          /\ runs[r].filesReadCount = Cardinality(runs[r].loaded)
          /\ (Len(runs[r].files) > 0 /\ AllLoaded(r)) => runs[r].combines = 1

\* A file with a node that fails to decode, followed by one that decodes, has
\* been read, was counted, and its run has combined
C8_Witness ==
    \E r \in RunIds : \E i \in runs[r].loaded :
        /\ HasFailingNode(runs[r].files[i])
        /\ runs[r].combines = 1
        /\ \E n \in 1..Len(loadedSinceReset) : loadedSinceReset[n] = <<r, i>>
        /\ \E k \in 2..Len(FileContent(runs[r].files[i])) :
              /\ ~Decodes(<<r, runs[r].files[i], k - 1>>)
              /\ <<r, runs[r].files[i], k>> \in RepositorySrcs

\* ------------------------------------------------------------------- C4
SenderAndSeller(src) ==
    <<DecodedAt(src).msgInfo.SenderCode, DecodedAt(src).seller.SellerNr>>

\* C4: a registered MSG01 is retrievable with the key re-derived from its
\* own SenderCode and SellerNr, and a displayed row is enriched from an MSG01
\* only if that MSG01 has the same SenderCode and the same SellerNr as the
\* row's message (distinct pairs never share a join key).
C4_JoinedOnlyToSameSenderAndSeller ==
    /\ \A key \in DOMAIN allMsg01s : JoinKey(allMsg01s[key]) = key
    /\ \A k \in 1..Len(output.rows) :
          output.rows[k].sellerSrc # NoSrc =>
              SenderAndSeller(output.rows[k].src)
                  = SenderAndSeller(output.rows[k].sellerSrc)

\* ------------------------------------------------------------------- C5
\* The step is the onload in which run r calls generateCombinedDisplayData
Combines(r) ==
    /\ Len(runs') = Len(runs)
    /\ runs'[r].combines = runs[r].combines + 1
TransactionalAfter == allMsg02s' \o allMsg05s' \o allMsg07s'
RowOf(rows, msg) == {k \in 1..Len(rows) : rows[k].src = msg.src}

\* C5: combine returns exactly one row per transactional message of the
\* repository and none for an MSG01; the row's messageType is the last
\* character of the message kind, and when an MSG01 is retained under the
\* message's join key its industryProduct is that MSG01's BusinessProduct.
C5_OneRowPerTransactionalMessage ==
    [][\A r \in RunIds : Combines(r) =>
          /\ output'.shown /\ output'.run = r
          /\ Len(output'.rows) = Len(allMsg02s') + Len(allMsg05s') + Len(allMsg07s')
          /\ \A n \in 1..Len(TransactionalAfter) :
                LET msg == TransactionalAfter[n]
                IN  /\ Cardinality(RowOf(output'.rows, msg)) = 1
                    /\ \A k \in RowOf(output'.rows, msg) :
                          /\ output'.rows[k].messageType
                                = CharAt(msg.type, Len(msg.type))
                          /\ output'.rows[k].messageType \in {"2", "5", "7"}
                          /\ JoinKey(msg) \in DOMAIN allMsg01s' =>
                                output'.rows[k].industryProduct
                                    = allMsg01s'[JoinKey(msg)].sellerDetails.BusinessProduct
      ]_vars

\* ------------------------------------------------------------------- C6
\* C6: for every transactional message with no MSG01 retained under its join
\* key, combine raises no error and produces the message's row, with
\* industryProduct the empty string.
C6_UnmatchedMessageHasRow ==
    [][\A r \in RunIds : Combines(r) =>
          \A n \in 1..Len(TransactionalAfter) :
              JoinKey(TransactionalAfter[n]) \notin DOMAIN allMsg01s' =>
                  /\ ~runs'[r].threw
                  /\ output'.shown /\ output'.run = r
                  /\ \E k \in RowOf(output'.rows, TransactionalAfter[n]) :
                        output'.rows[k].industryProduct = ""
      ]_vars

\* ------------------------------------------------------------------- C7
\* FactorCode, FactorName or Currency decoded as null, or a FactorCode whose
\* two-character prefix is not a region code
Incomplete(msg) ==
    \/ msg.ef.FactorCode = NullText
    \/ msg.ef.FactorName = NullText
    \/ CurrencyOf(msg) = NullText
    \/ /\ msg.ef.FactorCode # NullText
       /\ ~IsRegionSubtag(Prefix(msg.ef.FactorCode, CountryPrefixLen))

\* C7: for a repository that holds a message whose FactorCode, FactorName or
\* Currency is null or whose FactorCode prefix is not a valid region code,
\* combine completes without throwing and returns a row for every
\* transactional message.
C7_IncompleteMessageDoesNotAbort ==
    [][\A r \in RunIds :
          (Combines(r) /\ \E n \in 1..Len(TransactionalAfter) :
                              Incomplete(TransactionalAfter[n])) =>
              /\ ~runs'[r].threw
              /\ output'.shown /\ output'.run = r
              /\ \A n \in 1..Len(TransactionalAfter) :
                    RowOf(output'.rows, TransactionalAfter[n]) # {}
      ]_vars

\* ------------------------------------------------------------------- C9
\* The required sections of each kind as the specification lists them
RequiredOf(kind) ==
    {"MsgInfo", "EF", "IF", "Seller"} \cup
        (CASE kind = "MSG01" -> {"SellerDetails"}
           [] kind = "MSG02" -> {"Buyer", "PrelCreditAssessDetails"}
           [] kind = "MSG05" -> {"Buyer", "CreditCoverDetails"}
           [] kind = "MSG07" -> {"Buyer", "CurrentCreditCoverDetails",
                                 "NewCreditCoverDetails"})
Succeeds == decodeCall.result.ok
AllRequiredPresent == RequiredOf(decodeCall.node.kind) \subseteq decodeCall.node.sections
NamesKind == Includes(decodeCall.result.error, decodeCall.node.kind)
NamesSection(sec) == Includes(decodeCall.result.error, "<" \o sec \o ">")

\* C9 as it holds: decoding a message of kind K succeeds if and only if every
\* required section of K is present; when one is absent the error names the
\* kind; an MSG01 or MSG02 error also names the first absent section in
\* checking order, an MSG05 or MSG07 error names no section.
C9_DecodeFailsNamingKind ==
    decodeCall.called =>
        /\ Succeeds <=> AllRequiredPresent
        /\ ~Succeeds =>
              /\ NamesKind
              /\ decodeCall.node.kind \in {"MSG01", "MSG02"} =>
                    /\ NamesSection(Head(MissingSections(decodeCall.node)))
                    /\ Head(MissingSections(decodeCall.node))
                          \in RequiredOf(decodeCall.node.kind) \ decodeCall.node.sections
              /\ decodeCall.node.kind \in {"MSG05", "MSG07"} =>
                    \A sec \in SectionNames : ~Includes(decodeCall.result.error, sec)

\* An MSG05 that lacks two of its sections has been decoded, and failed
C9_Witness ==
    /\ decodeCall.called
    /\ decodeCall.node.kind = "MSG05"
    /\ ~Succeeds
    /\ Cardinality(RequiredOf("MSG05") \ decodeCall.node.sections) = 2

\* C9 as stated: decoding succeeds if and only if every required section is
\* present, and when one is absent the error identifies both the kind and a
\* missing section.
C9_DecodeFailsNamingKindAndSection ==
    decodeCall.called =>
        /\ Succeeds <=> AllRequiredPresent
        /\ ~Succeeds =>
              /\ NamesKind
              /\ \E sec \in RequiredOf(decodeCall.node.kind) \ decodeCall.node.sections :
                    Includes(decodeCall.result.error, sec)

\* ------------------------------------------------------------------ C10
PromptsFor(prompts, c) == SelectSeq(prompts, LAMBDA p : p.currency = c)
Supplied(p) == p.result.k # "null"
\* The rows whose conversion needs a rate for currency c
RowsIn(rows, c) ==
    {k \in 1..Len(rows) :
        /\ rows[k].amountReq.k = "num"
        /\ rows[k].currency \notin {NullText, ""}
        /\ toUpperCase(rows[k].currency) = c}
RateNeeded(row) == row.amountReqUSD.k = "str" /\ row.amountReqUSD.s = "(Rate needed)"
ConvertedAt(row, rate) == row.amountReqUSD = JsNum(row.amountReq.n \div rate)

\* C10: once a rate has been supplied for a currency, every later conversion
\* of that currency in the run uses that rate and the user is not prompted
\* for the currency again (the rows converted before it was supplied are the
\* ones whose prompt was declined); a cached rate does not change until the
\* next run starts.
C10_SuppliedRateIsReused ==
    [][/\ \A r \in RunIds : Combines(r) =>
             \A c \in {runs'[r].prompts[n].currency : n \in 1..Len(runs'[r].prompts)}
                        \cup DOMAIN exchangeRatesCache' :
                LET asked == PromptsFor(runs'[r].prompts, c)
                    rows == output'.rows
                IN  /\ \A n \in 1..Len(asked) : Supplied(asked[n]) => n = Len(asked)
                    /\ c \in DOMAIN exchangeRatesCache => asked = <<>>
                    /\ (asked # <<>> /\ Supplied(asked[Len(asked)])) =>
                          /\ c \in DOMAIN exchangeRatesCache'
                          /\ exchangeRatesCache'[c] = asked[Len(asked)].result.n
                    /\ ~runs'[r].threw =>
                          IF c \in DOMAIN exchangeRatesCache'
                          THEN /\ Cardinality({k \in RowsIn(rows, c) : RateNeeded(rows[k])})
                                    = Len(asked) - (IF c \in DOMAIN exchangeRatesCache
                                                    THEN 0 ELSE 1)
                               /\ \A k \in RowsIn(rows, c) :
                                     \/ RateNeeded(rows[k])
                                     \/ ConvertedAt(rows[k], exchangeRatesCache'[c])
                          ELSE \A k \in RowsIn(rows, c) : RateNeeded(rows[k])
       /\ \A c \in DOMAIN exchangeRatesCache :
             \/ RunStarts
             \/ c \in DOMAIN exchangeRatesCache' /\ exchangeRatesCache'[c] = exchangeRatesCache[c]
      ]_vars

\* A run was prompted for EUR, the user supplied a rate, and the table of the
\* run holds two rows in that currency converted with it
C10_Witness ==
    \E r \in RunIds :
        /\ runs[r].combines = 1 /\ ~runs[r].threw
        /\ output.shown /\ output.run = r
        /\ \E n \in 1..Len(runs[r].prompts) :
              runs[r].prompts[n].currency = "EUR" /\ Supplied(runs[r].prompts[n])
        /\ "EUR" \in DOMAIN exchangeRatesCache
        /\ Cardinality({k \in RowsIn(output.rows, "EUR") :
                           ConvertedAt(output.rows[k], exchangeRatesCache["EUR"])}) >= 2

\* ------------------------------------------------------------------ C11
Declines(prompts) == {n \in 1..Len(prompts) : ~Supplied(prompts[n])}

\* C11: when the user declines to supply a rate, no error is raised and only
\* the row being converted degrades: the table of the run has a row for
\* every message, one row with an annotated amount for each declined prompt
\* of a currency, the cache gains no entry for a currency that was only
\* declined, and a currency already in the cache is converted without prompt.
C11_DeclineDegradesOneRow ==
    [][\A r \in RunIds :
          (Combines(r) /\ Declines(runs'[r].prompts) # {}) =>
              /\ ~runs'[r].threw
              /\ output'.shown /\ output'.run = r
              /\ \A n \in 1..Len(TransactionalAfter) :
                    RowOf(output'.rows, TransactionalAfter[n]) # {}
              /\ \A c \in {runs'[r].prompts[n].currency : n \in 1..Len(runs'[r].prompts)} :
                    LET asked == PromptsFor(runs'[r].prompts, c)
                    IN  /\ c \notin DOMAIN exchangeRatesCache
                        /\ Cardinality({k \in RowsIn(output'.rows, c) :
                                           RateNeeded(output'.rows[k])})
                              = Cardinality(Declines(asked))
                        /\ Declines(asked) = 1..Len(asked) =>
                              c \notin DOMAIN exchangeRatesCache'
      ]_vars

\* ------------------------------------------------------------------ C12
Converts == functionCall.fn = "convertToUSD" /\ functionCall.called

Parsable(row) == IsIsoDate(row.dateReceived)

\* C13: in the rows combine returns, every row whose received date cannot
\* be parsed comes before every row with a parsable received date, and the
\* rows with parsable dates are in non-decreasing date order.
C13_UnparsableFirstThenAscending ==
    output.shown =>
        \A i, j \in 1..Len(output.rows) :
            i < j =>
                /\ ~Parsable(output.rows[j]) => ~Parsable(output.rows[i])
                /\ (Parsable(output.rows[i]) /\ Parsable(output.rows[j])) =>
                      NewDate(output.rows[i].dateReceived).value
                          <= NewDate(output.rows[j].dateReceived).value

\* ------------------------------------------------------------------ C14
\* The place of a row's message in [...allMsg02s, ...allMsg05s, ...allMsg07s]
InputPlace(row) == CHOOSE n \in 1..Len(Transactional) : Transactional[n].src = row.src

CombinedTwice == Len(functionCall.results) >= 2
FirstCombine == functionCall.results[1]
SecondCombine == functionCall.results[2]

ManagerCalled == functionCall.fn = "getCreditManager" /\ functionCall.called

\* The name rule of a country code matches the partner name
ManagerNameRule(cc, name) ==
    /\ name # NullText
    /\ \/ cc = "SG" /\ Includes(name, "Mogli")
       \/ cc = "JP" /\ (Includes(name, "Mitsubishi") \/ Includes(name, "Sumitomo Mitsui"))
       \/ cc = "US" /\ Includes(name, "Standard Chartered Bank New York")

\* C16: getCreditManager on a numeric amount: at most 500000 gives 'lux' for
\* every country code and partner name; above it the country rule, then the
\* name rule of the country give 'trey', and when no rule matches the
\* result is 'bost'.
C16_ThresholdThenCountryRules ==
    (ManagerCalled /\ functionCall.creditLine.k = "num") =>
        functionCall.result =
            Value(IF functionCall.creditLine.n <= CreditLineThreshold THEN "lux"
                  ELSE IF functionCall.countryCode \in treyCountryCodes THEN "trey"
                  ELSE IF ManagerNameRule(functionCall.countryCode, functionCall.factorName)
                       THEN "trey"
                  ELSE "bost")

\* ------------------------------------------------------------------ C17
ExecutiveCalled == functionCall.fn = "getAccountExecutive" /\ functionCall.called

\* The rules in order, on a country code and a name in upper case: the
\* name overrides of a country, the general name override, the four lists
ExecutiveRules(cc, name) ==
    << [when |-> cc = "MX" /\ Includes(name, "BANCOMEX"), then |-> "Mary Farley"],
       [when |-> cc = "MX" /\ Includes(name, "BANCO MONEX"), then |-> "Tyler Sigler"],
       [when |-> cc = "IN" /\ (Includes(name, "INDIA FACTORING") \/ Includes(name, "SBI GLOBAL")),
        then |-> "Tammie Cosey"],
       [when |-> cc = "IN" /\ (Includes(name, "ICICI BANK") \/ Includes(name, "INDIA EXIM")),
        then |-> "James Vuu"],
       [when |-> cc = "IN" /\ (Includes(name, "ECGC") \/ Includes(name, "YES BANK")),
        then |-> "Tyler Sigler"],
       [when |-> cc = "US" /\ Includes(name, "STANDARD CHARTERED BANK NEW YORK"),
        then |-> "Mary Farley"],
       [when |-> cc = "SG" /\ Includes(name, "MOGLI LABS"), then |-> "Tammie Cosey"],
       [when |-> cc = "SG", then |-> "James Vuu"],
       [when |-> Includes(name, "SKYTEX") \/ Includes(name, "GLOBAL DENIM"),
        then |-> "Mary Farley"],
       [when |-> cc \in maryCodes, then |-> "Mary Farley"],
       [when |-> cc \in tammieCodes, then |-> "Tammie Cosey"],
       [when |-> cc \in jamesCodes, then |-> "James Vuu"],
       [when |-> cc \in tylerCodes, then |-> "Tyler Sigler"] >>

RECURSIVE FirstMatch(_, _)
FirstMatch(rules, fallback) ==
    IF rules = <<>> THEN fallback
    ELSE IF Head(rules).when THEN Head(rules).then
    ELSE FirstMatch(Tail(rules), fallback)

ListedCodes == maryCodes \cup tammieCodes \cup jamesCodes \cup tylerCodes
NameOverride(name) == Includes(name, "SKYTEX") \/ Includes(name, "GLOBAL DENIM")

C18_OptionalsNeverNull ==
    (decodeCall.called /\ decodeCall.result.ok) =>
        /\ decodeCall.result.msg.optionalSection # NullText
        /\ decodeCall.result.msg.msgText # NullText
        /\ decodeCall.result.msg.payload.OptionalSection # NullText
        /\ decodeCall.result.msg.payload.MsgText # NullText

\* ------------------------------------------------------------------ C19
Classified == functionCall.fn = "validateDataUpload" /\ functionCall.called
TextOf == SplitLines(functionCall.content)

\* C19 as stated: validateDataUpload returns Volume when the third line of
\* the text contains VOLUME, otherwise Commission when it contains
\* COMMISSION, otherwise Unknown; Unknown when the text has fewer than three
\* lines; no other line counts.
C19_ThirdLineTokenDecides ==
    Classified =>
        functionCall.result =
            IF Len(TextOf) < 3 THEN UnknownType
            ELSE IF Includes(TextOf[3], "VOLUME") THEN VolumeType
            ELSE IF Includes(TextOf[3], "COMMISSION") THEN CommissionType
            ELSE UnknownType

\* C19, amended: the tokens are looked for in the third line without regard
\* to letter case (a line being what a line feed, with or without a
\* carriage return before it, ends); everything else as stated.
C19_ThirdLineTokenInAnyCaseDecides ==
    Classified =>
        functionCall.result =
            IF Len(TextOf) < 3 THEN UnknownType
            ELSE IF Includes(toUpperCase(TextOf[3]), "VOLUME") THEN VolumeType
            ELSE IF Includes(toUpperCase(TextOf[3]), "COMMISSION") THEN CommissionType
            ELSE UnknownType

C19_Witness ==
    /\ Classified
    /\ Len(TextOf) = 4
    /\ TextOf[1] = "VOLUME REPORT" /\ TextOf[3] = "COMMISSION REPORT" /\ TextOf[4] = "Monthly volume"
    /\ functionCall.result = CommissionType

\* ------------------------------------------------------------------ C20
ReportRuns == 1..Len(reportPage.runs)
StepsOf(r) == {reportPage.steps[n][2] : n \in {n \in 1..Len(reportPage.steps) : reportPage.steps[n][1] = r}}
ParsingSteps == {"findHeaderRow", "findColumnSeparators", "parseAndDisplayReports"}
ClassifiedRight(r) ==
    /\ FileTypes[reportPage.runs[r].volume] = VolumeType
    /\ FileTypes[reportPage.runs[r].commission] = CommissionType
RejectionAlerts(r) ==
    {n \in 1..Len(reportPage.alerts) :
        reportPage.alerts[n].run = r /\ reportPage.alerts[n].about \in {"volume", "commission"}}

\* C20: a run searches a header, infers columns or generates tables only
\* after both of its files were classified, the Volume slot's as Volume and
\* the Commission slot's as Commission; a run whose reads have ended with
\* any other classification has ended with one rejection and none of these
\* steps for either file, and its tables are not shown.
C20_ParsingOnlyAfterBothClassified ==
    \A r \in ReportRuns :
        /\ StepsOf(r) \cap ParsingSteps # {} =>
              /\ ClassifiedRight(r)
              /\ "validateDataUpload" \in StepsOf(r)
        /\ (reportPage.runs[r].state \notin {"reading", "failed"} /\ ~ClassifiedRight(r)) =>
              /\ reportPage.runs[r].state = "rejected"
              /\ Cardinality(RejectionAlerts(r)) = 1
              /\ StepsOf(r) \cap (ParsingSteps \cup {"updateReportLinks"}) = {}
              /\ reportPage.reportOutput.run # r

C20_Witness ==
    \E r, q \in ReportRuns :
        /\ reportPage.runs[r].state = "rejected"
        /\ FileTypes[reportPage.runs[r].volume] = VolumeType
        /\ reportPage.runs[r].commission = 4
        /\ reportPage.runs[q].state = "displayed"
        /\ reportPage.reportOutput.volumeHeaderRow = 5

\* ------------------------------------------------------------------ C21
HeaderSearched == functionCall.fn = "findHeaderRow" /\ functionCall.called
Signature(fileType) ==
    IF fileType = VolumeType THEN squashedHeaderVolume ELSE squashedHeaderCommission
OtherType(fileType) == IF fileType = VolumeType THEN CommissionType ELSE VolumeType
IsHeaderLine(n, fileType) == Squash(TextOf[n]) = Signature(fileType)

\* C21: findHeaderRow returns the 1-based number of the first line whose
\* text without whitespace equals the signature of the requested report
\* type, and -1 when no line does; it never returns a line that is the
\* header of the other report type.
C21_FirstExactHeaderLine ==
    HeaderSearched =>
        /\ (\A n \in 1..Len(TextOf) : ~IsHeaderLine(n, functionCall.fileType))
              => functionCall.result = -1
        /\ (\E n \in 1..Len(TextOf) : IsHeaderLine(n, functionCall.fileType))
              => /\ functionCall.result \in 1..Len(TextOf)
                 /\ IsHeaderLine(functionCall.result, functionCall.fileType)
                 /\ \A n \in 1..(functionCall.result - 1) :
                        ~IsHeaderLine(n, functionCall.fileType)
        /\ functionCall.result # -1
              => ~IsHeaderLine(functionCall.result, OtherType(functionCall.fileType))

C21_Witness ==
    /\ HeaderSearched
    /\ functionCall.fileType = VolumeType
    /\ Len(TextOf) = 3
    /\ IsHeaderLine(1, CommissionType)
    /\ IsHeaderLine(2, VolumeType) /\ IsHeaderLine(3, VolumeType)
    /\ functionCall.result = 2

\* C22: findColumnSeparators returns no column map when the header was not
\* found, when the line 4 lines below the header does not exist, or when
\* that line has no run of 4 characters from A-Z and 0-9; and a table
\* generated without a column map slices no line and has no row, only the
\* message that the column definitions were not found (the link table:
\* the message that the Volume table could not be generated).
ColumnsSearched == functionCall.fn = "findColumnSeparators" /\ functionCall.called
TableGenerated == functionCall.fn = "generateTableHTML" /\ functionCall.called
LinkTableGenerated == functionCall.fn = "generateVolumeLinkTable" /\ functionCall.called
CodeRunAt(line, c) == c >= 0 /\ c + 4 <= Len(line) /\ \A k \in 1..4 : CharAt(line, c + k) \in UpperSet \cup DigitSet
HasCode(line) == \E c \in 0..Len(line) : CodeRunAt(line, c)
NoAnchor == \/ functionCall.headerRow = -1
            \/ functionCall.headerRow + 4 > Len(TextOf)
            \/ ~HasCode(TextOf[functionCall.headerRow + 4])
C22_NoColumnMapNoRows ==
    /\ ColumnsSearched /\ NoAnchor => functionCall.result = NoSeparators
    /\ TableGenerated /\ functionCall.separators = NoSeparators =>
          /\ functionCall.result.message = NoColumnsMessage
          /\ functionCall.result.sliced = 0
          /\ functionCall.result.rows = <<>>
          /\ functionCall.result.columns = <<>>
    /\ LinkTableGenerated /\ functionCall.separators = NoSeparators =>
          /\ functionCall.result.message = NoLinkTableMessage
          /\ functionCall.result.sliced = 0
          /\ functionCall.result.C = <<>> /\ functionCall.result.U = <<>>
C22_Witness ==
    /\ TableGenerated /\ functionCall.separators = NoSeparators
    /\ functionCall.result.message = NoColumnsMessage
    /\ \E n \in 1..Len(TextOf) : TextOf[n] = RowOfC

\* C23: a column map comes from the line 4 lines below the header: the
\* group bracket is [0, c), the code bracket [c, c+4) and the name bracket
\* [c+4, e), c being the offset of the first run of 4 characters from A-Z
\* and 0-9 on that line and e the offset of the first run of 4 spaces at or
\* after c+4, or the length of the line; so 0 <= c, c+4 <= e <= length.
FourSpacesAt(line, e) == e + 4 <= Len(line) /\ SubSeq(line, e + 1, e + 4) = "    "
FirstCodeRun(line, c) == CodeRunAt(line, c) /\ \A d \in 0..(c - 1) : ~CodeRunAt(line, d)
NameEnd(line, c, e) ==
    IF \E f \in (c + 4)..Len(line) : FourSpacesAt(line, f)
    THEN e >= c + 4 /\ FourSpacesAt(line, e) /\ \A f \in (c + 4)..(e - 1) : ~FourSpacesAt(line, f)
    ELSE e = Len(line)
C23_BracketsFromFourthLine ==
    ColumnsSearched /\ functionCall.result.found =>
        /\ functionCall.headerRow >= 1
        /\ functionCall.headerRow + 4 <= Len(TextOf)
        /\ LET line == TextOf[functionCall.headerRow + 4]
               map == functionCall.result
           IN  /\ map.groupBracket.start = 0
               /\ FirstCodeRun(line, map.groupBracket.end)
               /\ map.codeBracket = [start |-> map.groupBracket.end, end |-> map.groupBracket.end + 4]
               /\ map.nameBracket.start = map.codeBracket.end
               /\ NameEnd(line, map.groupBracket.end, map.nameBracket.end)
               /\ 0 <= map.groupBracket.end
               /\ map.nameBracket.start <= map.nameBracket.end
               /\ map.nameBracket.end <= Len(line)
C23_Witness ==
    /\ ColumnsSearched /\ functionCall.result.found
    /\ functionCall.headerRow = 2
    /\ TextOf[functionCall.headerRow + 4] = RowOfC
    /\ functionCall.result.groupBracket.end = 4
    /\ functionCall.result.nameBracket = [start |-> 8, end |-> 21]


\* C24: in the Volume table, the Commission table and the link table a line
\* gives a data row if and only if its group slice trims to exactly one
\* character and its code slice trims to a non-empty text; nothing else
\* includes or excludes a line.
GroupSlice(n) == Trim(Substring(TextOf[n], functionCall.separators.groupBracket.start, functionCall.separators.groupBracket.end))
CodeSlice(n) == Trim(Substring(TextOf[n], functionCall.separators.codeBracket.start, functionCall.separators.codeBracket.end))
IsDataRow(n) == Len(GroupSlice(n)) = 1 /\ CodeSlice(n) # ""
RowLines(rows) == {rows[k].line : k \in 1..Len(rows)}
OneRowPerLine(rows) == \A j, k \in 1..Len(rows) : j < k => rows[j].line < rows[k].line
C24_DataRowFilter ==
    /\ TableGenerated /\ functionCall.separators.found =>
          /\ RowLines(functionCall.result.rows) = {n \in 1..Len(TextOf) : IsDataRow(n)}
          /\ OneRowPerLine(functionCall.result.rows)
    /\ LinkTableGenerated /\ functionCall.separators.found =>
          /\ RowLines(functionCall.result.C) \cup RowLines(functionCall.result.U)
                = {n \in 1..Len(TextOf) : IsDataRow(n)}
          /\ OneRowPerLine(functionCall.result.C) /\ OneRowPerLine(functionCall.result.U)

\* C24, the part of the Volume and Commission tables
C24_DataRowFilterOfTables ==
    TableGenerated /\ functionCall.separators.found =>
        /\ RowLines(functionCall.result.rows) = {n \in 1..Len(TextOf) : IsDataRow(n)}
        /\ OneRowPerLine(functionCall.result.rows)

\* C24, the link table: its rows are the data rows of group C or U that
\* have a value that is not zero
C24_LinkTableRows ==
    LinkTableGenerated /\ functionCall.separators.found =>
        /\ RowLines(functionCall.result.C) \cup RowLines(functionCall.result.U) \subseteq {n \in 1..Len(TextOf) : IsDataRow(n)}
        /\ \A n \in 1..Len(TextOf) :
              IsDataRow(n) /\ GroupSlice(n) \in {"C", "U"}
                 /\ (\E k \in 1..7 : ~isZeroValue(rowValues(TextOf[n], functionCall.separators.dataColumnIndices)[k]))
              => n \in RowLines(functionCall.result.C) \cup RowLines(functionCall.result.U)

\* C25: computePercentageDiff gives 'N/A' when an operand is missing, is no
\* number or is zero; otherwise the rounded value of (current - previous) /
\* previous * 100 followed by '%'; and never 'NaN%', 'Infinity%' or
\* '-Infinity%'.
DiffComputed == functionCall.fn = "computePercentageDiff" /\ functionCall.called
Operand(value) == parseNumericValue(value)
Unusable(value) == Operand(value) = NullNumber \/ (Operand(value).k = "finite" /\ Operand(value).num = 0)
BothFinite == Operand(functionCall.currentValue).k = "finite" /\ Operand(functionCall.previousValue).k = "finite"
Sign(n) == IF n < 0 THEN -1 ELSE 1
RoundedPercent(c, p) ==
    LET num == 100 * (c.num * p.den - p.num * c.den) * Sign(p.num * c.den)
        den == p.num * c.den * Sign(p.num * c.den)
    IN  CHOOSE r \in ((num \div den) - 1)..((num \div den) + 1) :
            2 * r * den <= 2 * num + den /\ 2 * num + den < 2 * (r + 1) * den
C25_DiffRule ==
    DiffComputed =>
        /\ Unusable(functionCall.currentValue) \/ Unusable(functionCall.previousValue)
              => functionCall.result = "N/A"
        /\ ~Unusable(functionCall.currentValue) /\ ~Unusable(functionCall.previousValue) /\ BothFinite
              => functionCall.result
                    = IntegerText(RoundedPercent(Operand(functionCall.currentValue),
                                                 Operand(functionCall.previousValue))) \o "%"
C25_NeverNaNOrInfinity ==
    C25_DiffRule /\ (DiffComputed => functionCall.result \notin {"NaN%", "Infinity%", "-Infinity%"})


\* C26: in every table the cells of the columns MTD % DIFF and YTD % DIFF
\* are computed from the row's CURR MO and LY SAME MO values and from its
\* CURR YTD and YTD LAST YR values, and are not the text of the line at the
\* column's offset.
CellOf(row, name) ==
    IF \E k \in 1..Len(functionCall.result.columns) : functionCall.result.columns[k] = name
    THEN row.cells[CHOOSE k \in 1..Len(functionCall.result.columns) : functionCall.result.columns[k] = name]
    ELSE NullText
DiffOperands == [name \in {"MTD % DIFF", "YTD % DIFF"} |-> IF name = "MTD % DIFF" THEN <<"CURR MO", "LY SAME MO">> ELSE <<"CURR YTD", "YTD LAST YR">>]
ComputedCell(row, name) == computePercentageDiff(CellOf(row, DiffOperands[name][1]), CellOf(row, DiffOperands[name][2]))
LinkRowComputed(row) ==
    /\ row.rowValues[3] = computePercentageDiff(row.rowValues[1], row.rowValues[2])
    /\ row.rowValues[6] = computePercentageDiff(row.rowValues[4], row.rowValues[5])
C26_LinkTableDiffsComputed ==
    LinkTableGenerated =>
        /\ \A k \in 1..Len(functionCall.result.C) : LinkRowComputed(functionCall.result.C[k])
        /\ \A k \in 1..Len(functionCall.result.U) : LinkRowComputed(functionCall.result.U[k])
C26_DiffCellsComputed ==
    /\ C26_LinkTableDiffsComputed
    /\ TableGenerated =>
          \A r \in 1..Len(functionCall.result.rows) : \A name \in DOMAIN DiffOperands :
              CellOf(functionCall.result.rows[r], name) # NullText =>
                  CellOf(functionCall.result.rows[r], name) = ComputedCell(functionCall.result.rows[r], name)


\* C27: for a batch of files and given answers to the rate prompts, the
\* rows of the combined table are the same, in content and in order, in
\* whatever order the reads of the files finish. Stated for a page with one
\* run, whose table is compared with the rows that the same answers give
\* when the files are registered in the order of the selection.
RECURSIVE RegisterFiles(_, _, _, _)
RegisterFiles(repo, files, r, i) ==
    IF i > Len(files) THEN repo
    ELSE RegisterFiles(RegisterNodes(repo, FileContent(files[i]), r, files[i], 1), files, r, i + 1)
InSelectionOrder(r) ==
    LET repo == RegisterFiles(Repository(EmptyMap, <<>>, <<>>, <<>>, <<>>), runs[r].files, r, 1)
    IN  generateCombinedDisplayData(repo.m01s, repo.m02s, repo.m05s, repo.m07s, EmptyMap)
SameAnswers(asked, others) ==
    \A a \in 1..Len(asked) : \A b \in 1..Len(others) :
        asked[a].currency = others[b].currency => asked[a].result = others[b].result
OnlyRunDisplayed == Len(runs) = 1 /\ runs[1].combines = 1 /\ ~runs[1].threw /\ output.shown
C27_RowsWhateverTheReadOrder ==
    OnlyRunDisplayed =>
        \A o \in InSelectionOrder(1) :
            ~o.threw /\ SameAnswers(o.prompts, runs[1].prompts) => o.rows = output.rows

\* C27 for the batches in which no two files hold an MSG01 of the same key
SellerKeysOf(file) ==
    {JoinKey(fromXMLString(FileContent(file)[n]).msg) :
        n \in {n \in 1..Len(FileContent(file)) :
                 FileContent(file)[n].kind = "MSG01" /\ fromXMLString(FileContent(file)[n]).ok}}
NoSharedSellerKey(files) ==
    \A i, j \in 1..Len(files) : i # j => SellerKeysOf(files[i]) \cap SellerKeysOf(files[j]) = {}
C27_RowsWhateverTheReadOrderOfDistinctKeys ==
    OnlyRunDisplayed /\ NoSharedSellerKey(runs[1].files) =>
        \A o \in InSelectionOrder(1) :
            ~o.threw /\ SameAnswers(o.prompts, runs[1].prompts) => o.rows = output.rows


\* C28: every run started on at least one file produces the combined table
\* in the end, and once only, when each of its reads finishes in the end,
\* be it with the file loaded or with a read error.
Started == Len(runs) >= 1 /\ Len(runs[1].files) >= 1
TableShown == output.shown /\ output.run = 1
ReadFailed == Len(runs) >= 1 /\ \E i \in 1..Len(runs[1].files) : i \notin runs[1].pending /\ i \notin runs[1].loaded
CombineThrew == Len(runs) >= 1 /\ runs[1].threw
C28_EveryRunShowsItsTable ==
    /\ [](Started => <>TableShown)
    /\ [](Started => runs[1].combines <= 1)

\* C28 for the runs without a read error and without an error thrown by
\* generateCombinedDisplayData
C28_EveryRunShowsItsTableUnlessError ==
    /\ [](Started => <>(TableShown \/ ReadFailed \/ CombineThrew))
    /\ [](Started => runs[1].combines <= 1)


\* C29: the rate cache holds only rates greater than zero; except at the
\* start of a run an entry of the cache is neither removed nor changed; and
\* the rate a conversion divides by, the cached one or the one the prompt
\* returned, is never zero.
PositiveRates(cache) == \A c \in DOMAIN cache : cache[c] > 0
C29_CacheOfPositiveRates ==
    [][/\ PositiveRates(exchangeRatesCache) /\ PositiveRates(exchangeRatesCache')
       /\ ~RunStarts =>
             \A c \in DOMAIN exchangeRatesCache :
                 c \in DOMAIN exchangeRatesCache' /\ exchangeRatesCache'[c] = exchangeRatesCache[c]
       /\ \A r \in RunIds : Combines(r) =>
             \A n \in 1..Len(runs'[r].prompts) :
                 Supplied(runs'[r].prompts[n]) =>
                     /\ runs'[r].prompts[n].result.n > 0
                     /\ runs'[r].prompts[n].currency \in DOMAIN exchangeRatesCache'
                     /\ exchangeRatesCache'[runs'[r].prompts[n].currency] = runs'[r].prompts[n].result.n
      ]_vars
\* After a click on a page whose cache held a rate, a second run has stored
\* the rate of its own prompt
C29_Witness ==
    /\ Len(runs) = 2 /\ runs[1].combines = 1 /\ runs[2].combines = 1
    /\ \E n \in 1..Len(runs[1].prompts) : Supplied(runs[1].prompts[n]) /\ runs[1].prompts[n].result.n = 2
    /\ "EUR" \in DOMAIN exchangeRatesCache /\ exchangeRatesCache["EUR"] = 4


\* C30: a row of the table whose converted amount is not a number (the
\* amount or the currency is missing, or the rate was declined and the value
\* is an annotated text) has the credit manager 'N/A'; 'lux', 'trey' and
\* 'bost' are assigned only to rows whose converted amount is a number.
TableRowsShown == IF output.shown THEN 1..Len(output.rows) ELSE {}
C30_NoManagerWithoutConvertedAmount ==
    \A k \in TableRowsShown :
        /\ output.rows[k].amountReqUSD.k # "num" => output.rows[k].creditManager = "N/A"
        /\ output.rows[k].creditManager \in {"lux", "trey", "bost"} => output.rows[k].amountReqUSD.k = "num"

\* C30 for the rows whose converted amount is not an annotated text
Annotated(value) == value.k = "str" /\ value.s \in {"(Rate needed)", "(No Rate)"}
C30_NoManagerWithoutAmount ==
    \A k \in TableRowsShown :
        ~Annotated(output.rows[k].amountReqUSD) =>
            /\ output.rows[k].amountReqUSD.k # "num" => output.rows[k].creditManager = "N/A"
            /\ output.rows[k].creditManager \in {"lux", "trey", "bost"} => output.rows[k].amountReqUSD.k = "num"

====
